---- MODULE Spec2Model ----
(***************************************************************************)
(* Dependency resolution and rule reconciliation of the Stardew Valley     *)
(* game extension: getManifestValue, SMAPIManifestClass, SMAPI_API          *)
(* (sendQuery, getGameVersion), getModDependencies, mapDependencies and     *)
(* modToggled.                                                              *)
(*                                                                         *)
(* JavaScript values are tagged records: [str |-> s], [bool |-> b],        *)
(* [arr |-> <<..>>], [obj |-> <<[k |-> key, v |-> value], ..>>] (keys in    *)
(* insertion order), [undef |-> TRUE] and [null |-> TRUE].  Rules, which    *)
(* the code builds with fixed shapes, are records whose optional fields    *)
(* are present or absent.  A call that can throw returns a record with a    *)
(* threw field.                                                             *)
(***************************************************************************)
EXTENDS Integers, Sequences, FiniteSets, TLC

VARIABLES
    installed,       \* host ids of state.persistent.mods[GAME_ID], insertion order
    smapiManifests,  \* mod id -> attributes.smapiManifests (live objects)
    rules,           \* mod id -> the mod's stored rules
    handlers,        \* modToggled invocations suspended at their await
    finished,        \* modToggled invocations that have settled, oldest first
    events,          \* mod-enabled events emitted so far
    call,            \* one invocation of a function: input, then result
    SMAPI_BUNDLED_MODS  \* installers/smapi: the module's _SMAPI_BUNDLED_MODS

vars ==
    <<installed, smapiManifests, rules, handlers, finished, events, call,
      SMAPI_BUNDLED_MODS>>

storeVars ==
    <<installed, smapiManifests, rules, handlers, finished, events,
      SMAPI_BUNDLED_MODS>>

(***************************************************************************)
(* Bounds of the model.                                                    *)
(***************************************************************************)
MaxDeps == 2

MaxEvents == 2

\* installSMAPI is not called again once _SMAPI_BUNDLED_MODS holds that many
MaxBundledNames == 5

GAME_ID == "stardewvalley"

(***************************************************************************)
(* JavaScript values.                                                      *)
(***************************************************************************)
Undef == [undef |-> TRUE]

Null == [null |-> TRUE]

Str(s) == [str |-> s]

Bool(b) == [bool |-> b]

Arr(a) == [arr |-> a]

Obj(o) == [obj |-> o]

KV(key, val) == [k |-> key, v |-> val]

IsStr(v) == "str" \in DOMAIN v

IsBool(v) == "bool" \in DOMAIN v

IsArr(v) == "arr" \in DOMAIN v

IsObj(v) == "obj" \in DOMAIN v

\* a value whose property access throws a TypeError
IsNullish(v) == "undef" \in DOMAIN v \/ "null" \in DOMAIN v

\* !!v
Truthy(v) ==
    IF IsStr(v) THEN v.str # ""
    ELSE IF IsBool(v) THEN v.bool
    ELSE IsArr(v) \/ IsObj(v)

\* Array.prototype.find, given the indexes whose elements satisfy the
\* callback: <<the first of these elements>>, or <<>> for undefined
Find(s, hits) ==
    IF hits = {} THEN <<>>
    ELSE <<s[CHOOSE i \in hits : \A j \in hits : i <= j]>>

\* the concatenation of the sequences of ss
Concat(ss) ==
    LET F[i \in 0..Len(ss)] == IF i = 0 THEN <<>> ELSE F[i - 1] \o ss[i]
    IN  F[Len(ss)]

\* Object.keys(v)
Keys(v) == IF IsObj(v) THEN [i \in 1..Len(v.obj) |-> v.obj[i].k] ELSE <<>>

\* v[key] for a value that is not nullish
Prop(v, key) ==
    IF IsObj(v) /\ \E i \in 1..Len(v.obj) : v.obj[i].k = key
    THEN v.obj[CHOOSE i \in 1..Len(v.obj) : v.obj[i].k = key].v
    ELSE Undef

\* v[key] = val on an object: replaces the property, or appends it
SetProp(v, key, val) ==
    IF \E i \in 1..Len(v.obj) : v.obj[i].k = key
    THEN Obj([v.obj EXCEPT ![CHOOSE i \in 1..Len(v.obj) : v.obj[i].k = key] =
                               KV(key, val)])
    ELSE Obj(Append(v.obj, KV(key, val)))

\* String.prototype.toLowerCase on the strings of the model
toLowerCase(s) ==
    CASE s = "Foo.Mod" -> "foo.mod"
      [] s = "B" -> "b"
      [] s = "C" -> "c"
      [] s = "X" -> "x"
      [] s = "UniqueID" -> "uniqueid"
      [] s = "UniqueId" -> "uniqueid"
      [] s = "MinimumVersion" -> "minimumversion"
      [] s = "isRequired" -> "isrequired"
      [] s = "IsRequired" -> "isrequired"
      [] s = "Dependencies" -> "dependencies"
      [] s = "ContentPackFor" -> "contentpackfor"
      [] s = "Name" -> "name"
      [] s = "Author" -> "author"
      [] s = "Version" -> "version"
      [] s = "Description" -> "description"
      [] s = "EntryDll" -> "entrydll"
      [] s = "MinimumApiVersion" -> "minimumapiversion"
      [] s = "UpdateKeys" -> "updatekeys"
      [] s = "ModUpdater" -> "modupdater"
      [] OTHER -> s

(***************************************************************************)
(* Strings and paths.  A path is the text the archive lists, with '/' for  *)
(* path.sep; the operators below are those of String.prototype and of the  *)
(* posix flavour of node's path module.                                    *)
(***************************************************************************)
sep == "/"

\* s.indexOf(t): the index from 0 of the first occurrence, or -1
indexOf(s, t) ==
    IF \E i \in 1..(Len(s) - Len(t) + 1) : SubSeq(s, i, i + Len(t) - 1) = t
    THEN (CHOOSE i \in 1..(Len(s) - Len(t) + 1) :
              /\ SubSeq(s, i, i + Len(t) - 1) = t
              /\ \A j \in 1..(i - 1) : SubSeq(s, j, j + Len(t) - 1) # t) - 1
    ELSE -1

\* s.substring(from), s.substr(from) for from >= 0
substring(s, from) == SubSeq(s, from + 1, Len(s))

\* s.endsWith(t)
endsWith(s, t) == Len(t) <= Len(s) /\ SubSeq(s, Len(s) - Len(t) + 1, Len(s)) = t

\* String.prototype.toLowerCase, letter by letter, for file paths
lowerCased(s) ==
    LET lowerLetter(c) ==
            CASE c = "A" -> "a" [] c = "B" -> "b" [] c = "C" -> "c" [] c = "D" -> "d"
              [] c = "E" -> "e" [] c = "F" -> "f" [] c = "G" -> "g" [] c = "H" -> "h"
              [] c = "I" -> "i" [] c = "J" -> "j" [] c = "K" -> "k" [] c = "L" -> "l"
              [] c = "M" -> "m" [] c = "N" -> "n" [] c = "O" -> "o" [] c = "P" -> "p"
              [] c = "Q" -> "q" [] c = "R" -> "r" [] c = "S" -> "s" [] c = "T" -> "t"
              [] c = "U" -> "u" [] c = "V" -> "v" [] c = "W" -> "w" [] c = "X" -> "x"
              [] c = "Y" -> "y" [] c = "Z" -> "z" [] OTHER -> c
        F[i \in 0..Len(s)] ==
            IF i = 0 THEN "" ELSE F[i - 1] \o lowerLetter(SubSeq(s, i, i))
    IN  F[Len(s)]

\* s.replace(/[^a-zA-Z0-9]/g, '')
alphanumericOnly(s) ==
    LET F[i \in 0..Len(s)] ==
            IF i = 0 THEN ""
            ELSE IF SubSeq(s, i, i) \in
                        {"a", "b", "c", "d", "e", "f", "g", "h", "i", "j", "k", "l",
                         "m", "n", "o", "p", "q", "r", "s", "t", "u", "v", "w", "x",
                         "y", "z", "A", "B", "C", "D", "E", "F", "G", "H", "I", "J",
                         "K", "L", "M", "N", "O", "P", "Q", "R", "S", "T", "U", "V",
                         "W", "X", "Y", "Z", "0", "1", "2", "3", "4", "5", "6", "7",
                         "8", "9"}
            THEN F[i - 1] \o SubSeq(s, i, i)
            ELSE F[i - 1]
    IN  F[Len(s)]

\* s.split(path.sep)
split(s) ==
    LET with(segments, c) ==
            IF c = sep THEN Append(segments, "")
            ELSE [segments EXCEPT ![Len(segments)] = @ \o c]
        F[i \in 0..Len(s)] ==
            IF i = 0 THEN <<"">> ELSE with(F[i - 1], SubSeq(s, i, i))
    IN  F[Len(s)]

\* the directory and the last segment of a path that holds a character
\* other than the separator: the separators the path ends with are left
\* out, and the directory of a single segment is '.'
pathParts(p) ==
    LET end == CHOOSE i \in 1..Len(p) :
                   /\ SubSeq(p, i, i) # sep
                   /\ \A j \in (i + 1)..Len(p) : SubSeq(p, j, j) = sep
        cut(at) == IF \E i \in 1..at : SubSeq(p, i, i) = sep
                   THEN CHOOSE i \in 1..at :
                            /\ SubSeq(p, i, i) = sep
                            /\ \A j \in (i + 1)..at : SubSeq(p, j, j) # sep
                   ELSE 0
        parts(at, slash) ==
            [dir |-> IF slash = 0 THEN "."
                     ELSE IF slash = 1 THEN sep
                     ELSE SubSeq(p, 1, slash - 1),
             base |-> SubSeq(p, slash + 1, at)]
    IN  parts(end, cut(end))

\* path.dirname(p)
dirname(p) ==
    IF p = "" THEN "."
    ELSE IF \A i \in 1..Len(p) : SubSeq(p, i, i) = sep THEN sep
    ELSE pathParts(p).dir

\* path.basename(p)
basename(p) ==
    IF \A i \in 1..Len(p) : SubSeq(p, i, i) = sep THEN ""
    ELSE pathParts(p).base

\* path.normalize(p) for a relative path: '.', '' and 'x/..' are resolved,
\* and a separator at the end is kept
normalize(p) ==
    LET with(kept, segment) ==
            IF segment \in {"", "."} THEN kept
            ELSE IF segment = ".." /\ kept # "" /\ basename(kept) # ".."
            THEN (IF dirname(kept) = "." THEN "" ELSE dirname(kept))
            ELSE IF kept = "" THEN segment
            ELSE kept \o sep \o segment
        resolved(segments) ==
            LET F[i \in 0..Len(segments)] ==
                    IF i = 0 THEN "" ELSE with(F[i - 1], segments[i])
            IN  F[Len(segments)]
        ended(path) ==
            IF path = "" THEN "."
            ELSE IF endsWith(p, sep) THEN path \o sep
            ELSE path
    IN  ended(resolved(split(p)))

\* path.join(a, b): the parts that are not empty, joined and normalized
join(a, b) ==
    IF a = "" THEN normalize(b)
    ELSE IF b = "" THEN normalize(a)
    ELSE normalize(a \o sep \o b)

(***************************************************************************)
(* common.ts                                                               *)
(***************************************************************************)
\* Object.keys(manifest).find(k => k.toLowerCase() === key.toLowerCase()),
\* when it is truthy
keyMatch(keys, lowered) ==
    SelectSeq(Find(keys, {i \in 1..Len(keys) : toLowerCase(keys[i]) = lowered}),
              LAMBDA k : k # "")

\* the key getManifestValue reads: <<key>>, or <<>> when it returns undefined
ManifestKey(manifest, key) ==
    IF ~Truthy(manifest) THEN <<>>
    ELSE IF Truthy(Prop(manifest, key)) THEN <<key>>
    ELSE keyMatch(Keys(manifest), toLowerCase(key))

\* manifest[found]
valueAt(manifest, found) ==
    IF found = <<>> THEN Undef ELSE Prop(manifest, found[1])

getManifestValue(manifest, key) == valueAt(manifest, ManifestKey(manifest, key))

(***************************************************************************)
(* types/smapi-types: SMAPIManifestClass                                   *)
(***************************************************************************)
ManifestFields ==
    {"Name", "Author", "Version", "Description", "UniqueID", "EntryDll",
     "MinimumApiVersion", "UpdateKeys", "ContentPackFor", "Dependencies",
     "ModUpdater"}

\* the Dependencies field put into a new array
orWrapped(f, value) ==
    IF f = "Dependencies" THEN Arr(<<value>>) ELSE value

\* value || [] for the Dependencies field
orEmpty(f, value) ==
    IF f = "Dependencies" /\ ~Truthy(value) THEN Arr(<<>>) ELSE value

\* new SMAPIManifestClass(raw): the fields of the instance
SMAPIManifestClass(raw) ==
    [f \in ManifestFields |-> orEmpty(f, getManifestValue(raw, f))]

(***************************************************************************)
(* SMAPI_API.ts: the catalog client.  env is what the call meets outside   *)
(* the program: whether the host knows the game, the installed version     *)
(* (its components, <<>> when there is none), process.platform, whether    *)
(* the POST throws, and the body of the response.                          *)
(***************************************************************************)
\* gameVersion.split('.').slice(0, 3).join('.')
shortenedVersion(gameVersion) ==
    SubSeq(gameVersion, 1, IF Len(gameVersion) < 3 THEN Len(gameVersion) ELSE 3)

\* getGameVersion without its two throws
getGameVersionUnchecked(env) ==
    [threw |-> FALSE, value |-> shortenedVersion(env.version)]

getGameVersion(env) ==
    IF ~env.game THEN [threw |-> TRUE, value |-> <<>>]
    ELSE IF env.version = <<>> THEN [threw |-> TRUE, value |-> <<>>]
    ELSE [threw |-> FALSE, value |-> shortenedVersion(env.version)]

platformTag(platform) ==
    IF platform = "win32" THEN "Windows"
    ELSE IF platform = "linux" THEN "Linux"
    ELSE "Mac"

\* the POST sent again after it threw
postQueryRetried(mods, includeMeta, env, gameVersion) ==
    [threw |-> env.post = "error",
     value |-> IF env.post = "error" THEN Undef ELSE env.data,
     posts |-> [i \in 1..(IF env.post = "error" THEN 2 ELSE 1) |->
                   [mods |-> mods, apiVersion |-> "3.0",
                    gameVersion |-> gameVersion,
                    platform |-> platformTag(env.platform),
                    includeExtendedMetadata |-> includeMeta]]]

\* the body of the request and the POST
postQuery(mods, includeMeta, env, gameVersion) ==
    [threw |-> env.post = "error",
     value |-> IF env.post = "error" THEN Undef ELSE env.data,
     posts |-> <<[mods |-> mods, apiVersion |-> "3.0",
                  gameVersion |-> gameVersion,
                  platform |-> platformTag(env.platform),
                  includeExtendedMetadata |-> includeMeta]>>]

\* the try block of sendQuery
sendQueryTry(mods, includeMeta, env) ==
    IF getGameVersion(env).threw
    THEN [threw |-> TRUE, value |-> Undef, posts |-> <<>>]
    ELSE postQuery(mods, includeMeta, env, getGameVersion(env).value)

\* sendQuery without its catch block
sendQueryRethrows(mods, includeMeta, env) ==
    [threw |-> sendQueryTry(mods, includeMeta, env).threw,
     value |-> sendQueryTry(mods, includeMeta, env).value,
     posts |-> sendQueryTry(mods, includeMeta, env).posts,
     logged |-> FALSE]

\* the catch block: the failure is logged and the result is []
caught(t) ==
    [threw |-> FALSE, value |-> IF t.threw THEN Arr(<<>>) ELSE t.value,
     posts |-> t.posts, logged |-> t.threw]

sendQuery(mods, includeMeta, env) == caught(sendQueryTry(mods, includeMeta, env))

(***************************************************************************)
(* semver, as mapDependencies uses it.  A range is the sequence of the     *)
(* tokens of its text: the template `${semver.coerce(version)}^` is the    *)
(* coerced version followed by a caret.                                    *)
(***************************************************************************)
\* the numeric components of a valid version, <<>> for any other text
SemverParse(s) ==
    CASE s = "1.0.0" -> <<1, 0, 0>>
      [] s = "1.2.0" -> <<1, 2, 0>>
      [] s = "2.0.0" -> <<2, 0, 0>>
      [] OTHER -> <<>>

\* String(semver.coerce(version))
SemverCoerce(s) ==
    CASE s = "1.0.0" -> "1.0.0"
      [] s = "1.0" -> "1.0.0"
      [] s = "1.2.0" -> "1.2.0"
      [] s = "2.0.0" -> "2.0.0"
      [] s = "2" -> "2.0.0"
      [] OTHER -> "null"

SemverGte(a, b) ==
    \/ a[1] > b[1]
    \/ a[1] = b[1] /\ a[2] > b[2]
    \/ a[1] = b[1] /\ a[2] = b[2] /\ a[3] >= b[3]

\* a comparator is an optional operator in front of a version; a caret or
\* tilde range is the same with ^ or ~ in front
SemverValidRange(range) ==
    \/ Len(range) = 1 /\ SemverParse(range[1]) # <<>>
    \/ /\ Len(range) = 2
       /\ range[1] \in {"^", "~", ">=", "="}
       /\ SemverParse(range[2]) # <<>>

\* semver.satisfies(version, range): false for an invalid range or version
\* the test of one comparator on parsed versions
SemverTest(v, op, r) ==
    CASE op = "=" -> v = r
      [] op = ">=" -> SemverGte(v, r)
      [] op = "~" -> SemverGte(v, r) /\ v[1] = r[1] /\ v[2] = r[2]
      [] op = "^" ->
           /\ SemverGte(v, r)
           /\ v[1] = r[1]
           /\ (r[1] = 0 => v[2] = r[2])
           /\ (r[1] = 0 /\ r[2] = 0 => v[3] = r[3])

\* semver.satisfies(version, range): false for an invalid range or version
SemverSatisfies(version, range) ==
    IF ~SemverValidRange(range) \/ SemverParse(version) = <<>> THEN FALSE
    ELSE SemverTest(SemverParse(version),
                    IF Len(range) = 2 THEN range[1] ELSE "=",
                    SemverParse(range[Len(range)]))

\* the range text mapDependencies builds
MinimumVersionRange(version) == <<SemverCoerce(version), "^">>

(***************************************************************************)
(* events/modToggled: mapDependencies                                      *)
(***************************************************************************)
\* Object.values(mods): each installed mod with its manifests attribute
modArray(ids, manifests) ==
    [i \in 1..Len(ids) |-> [id |-> ids[i], smapiManifests |-> manifests[ids[i]]]]

\* every occurrence kept: no Set
everyOccurrence(ids) == 1..Len(ids)

\* [...new Set(ids)], as the indexes of the first occurrences
firstOccurrences(ids) ==
    {i \in 1..Len(ids) : \A j \in 1..(i - 1) : ids[j] # ids[i]}

\* one entry per distinct UniqueID, the first that carries it
distinctDependencies(named, keep) ==
    Concat([i \in 1..Len(named) |-> IF i \in keep THEN <<named[i]>> ELSE <<>>])

\* dependencies.filter(d => !!d.UniqueID)
namedDependencies(dependencies) ==
    SelectSeq(dependencies, LAMBDA d : Truthy(Prop(d, "UniqueID")))

\* the UniqueID of each dependency
uniqueIds(named) == [i \in 1..Len(named) |-> Prop(named[i], "UniqueID")]

filteredDependencies(dependencies) ==
    distinctDependencies(namedDependencies(dependencies),
                         firstOccurrences(uniqueIds(namedDependencies(dependencies))))

\* depToFind.isRequired === true ? 'requires' : 'recommends'
ruleType(dep) ==
    IF Prop(dep, "isRequired") = Bool(TRUE) THEN "requires" ELSE "recommends"

\* the minimum version itself, without the caret
versionExpressionBare(dep) ==
    IF Truthy(Prop(dep, "MinimumVersion"))
    THEN Prop(dep, "MinimumVersion").str
    ELSE "*"

\* dep.MinimumVersion ? `${dep.MinimumVersion}^` : '*'
versionExpression(dep) ==
    IF Truthy(Prop(dep, "MinimumVersion"))
    THEN Prop(dep, "MinimumVersion").str \o "^"
    ELSE "*"

\* the body of the callback of candidates.find
versionMatches(version, modDepVersion) ==
    IF ~Truthy(version) THEN TRUE
    ELSE IF ~Truthy(modDepVersion) THEN FALSE
    ELSE SemverSatisfies(modDepVersion.str, MinimumVersionRange(version.str))

\* m.attributes?.smapiManifests?.[depName]
bundled(mod, dep) == Prop(mod.smapiManifests, Prop(dep, "UniqueID").str)

\* the callback of candidates.find
candidateMatches(mod, dep) ==
    versionMatches(Prop(dep, "MinimumVersion"), Prop(bundled(mod, dep), "Version"))

\* modArray.filter(m => m.attributes?.smapiManifests?.[depName])
candidates(mods, dep) == SelectSeq(mods, LAMBDA m : Truthy(bundled(m, dep)))

\* the last candidate that matches, instead of the first
lastMatch(found, dep) ==
    IF \A i \in 1..Len(found) : ~candidateMatches(found[i], dep) THEN <<>>
    ELSE <<found[CHOOSE i \in 1..Len(found) :
                     /\ candidateMatches(found[i], dep)
                     /\ \A j \in (i + 1)..Len(found) : ~candidateMatches(found[j], dep)]>>

\* candidates.find(...): <<mod>>, or <<>>
firstMatch(found, dep) ==
    Find(found, {i \in 1..Len(found) : candidateMatches(found[i], dep)})

\* the installed mod the dependency is matched to: <<mod>>, or <<>>
localMatch(mods, dep) == firstMatch(candidates(mods, dep), dep)

localRule(dep, match) ==
    [type |-> ruleType(dep),
     reference |-> [versionMatch |-> versionExpression(dep),
                    description |-> Prop(dep, "UniqueID").str,
                    id |-> match.id]]

\* the outcome of the loop, given the match of each dependency
partition(filtered, matches) ==
    [threw |-> FALSE,
     smapiRules |->
        Concat([i \in 1..Len(filtered) |->
                   IF matches[i] = <<>> THEN <<>>
                   ELSE <<localRule(filtered[i], matches[i][1])>>]),
     missingDependencies |->
        Concat([i \in 1..Len(filtered) |->
                   IF matches[i] = <<>> THEN <<filtered[i]>> ELSE <<>>])]

\* the loop over filteredDependencies: the rules of the dependencies that
\* are installed, and missingDependencies
mapLocal(mods, filtered) ==
    partition(filtered, [i \in 1..Len(filtered) |-> localMatch(mods, filtered[i])])

\* s.id.toLowerCase() throws for this entry of the response
badEntry(s) == IsNullish(s) \/ ~IsStr(Prop(s, "id"))

\* s.id.toLowerCase() === dep.UniqueID.toLowerCase()
entryMatches(s, dep) ==
    toLowerCase(Prop(s, "id").str) = toLowerCase(Prop(dep, "UniqueID").str)

\* the entry find stopped at: it threw there, or returned it
stoppedAt(stop) ==
    IF stop = <<>> THEN [threw |-> FALSE, found |-> <<>>]
    ELSE [threw |-> badEntry(stop[1]), found |-> stop]

\* smapiData.find(s => s.id.toLowerCase() === dep.UniqueID.toLowerCase()):
\* it throws when smapiData is no array, or at the first entry without id
findEntry(smapiData, dep) ==
    IF ~IsArr(smapiData) THEN [threw |-> TRUE, found |-> <<>>]
    ELSE stoppedAt(Find(smapiData.arr,
                        {i \in 1..Len(smapiData.arr) :
                            \/ badEntry(smapiData.arr[i])
                            \/ entryMatches(smapiData.arr[i], dep)}))

\* the mods page of the game, whatever the entry carries
urlAlwaysDefault(url) == "https://nexusmods.com/" \o GAME_ID \o "/mods/"

\* smapiInfo.metadata?.main?.url || the mods page of the game
urlOrDefault(url) ==
    IF Truthy(url) THEN url.str ELSE "https://nexusmods.com/" \o GAME_ID \o "/mods/"

remoteRule(dep, smapiInfo) ==
    [type |-> ruleType(dep),
     reference |-> [idHint |-> Prop(smapiInfo, "id").str,
                    description |-> Prop(smapiInfo, "id").str,
                    instructions |-> "Download the required version."],
     downloadHint |-> [mode |-> "browse",
                       url |-> urlOrDefault(Prop(Prop(Prop(smapiInfo, "metadata"),
                                                      "main"), "url"))],
     extra |-> [required |-> Truthy(Prop(dep, "isRequired"))]]

\* the else branch with the id lower-cased
unresolvedLowerCased(dep) ==
    [type |-> ruleType(dep),
     reference |-> [version |-> versionExpression(dep),
                    fileExpression |-> toLowerCase(Prop(dep, "UniqueID").str)]]

\* the else branch of the map callback
unresolvedRule(dep) ==
    [type |-> ruleType(dep),
     reference |-> [version |-> versionExpression(dep),
                    fileExpression |-> Prop(dep, "UniqueID").str]]

\* the callback of missingDependencies.map, when find does not throw
externalRule(dep, found) ==
    IF found # <<>> THEN remoteRule(dep, found[1]) ELSE unresolvedRule(dep)

\* the rule the catch block returns for a dependency
catchRule(dep) ==
    [type |-> ruleType(dep),
     reference |-> [version |-> versionExpression(dep),
                    fileExpression |-> Prop(dep, "UniqueID").str]]

\* missingDependencies.map(d => ({ id: d.UniqueID }))
missingMods(missingDependencies) ==
    [i \in 1..Len(missingDependencies) |->
        [id |-> Prop(missingDependencies[i], "UniqueID").str]]

\* mapDependencies up to its await: it throws when dependencies is no array
\* or holds a null or undefined entry
mapBegin(mods, dependencies) ==
    IF ~IsArr(dependencies) \/ \E i \in 1..Len(dependencies.arr) : IsNullish(dependencies.arr[i])
    THEN [threw |-> TRUE, smapiRules |-> <<>>, missingDependencies |-> <<>>]
    ELSE mapLocal(mods, filteredDependencies(dependencies.arr))

\* the try block after the await, given what find did for each dependency.
\* A rejection of sendQuery and a TypeError of the map callback both end in
\* the catch block.
mapFound(smapiRules, missingDependencies, threw, finds) ==
    IF threw \/ \E i \in 1..Len(finds) : finds[i].threw
    THEN [i \in 1..Len(missingDependencies) |-> catchRule(missingDependencies[i])]
    ELSE smapiRules \o [i \in 1..Len(missingDependencies) |->
                            externalRule(missingDependencies[i], finds[i].found)]

\* mapDependencies from the settling of sendQuery on: the rules it returns
mapEnd(smapiRules, missingDependencies, query) ==
    mapFound(smapiRules, missingDependencies, query.threw,
             [i \in 1..Len(missingDependencies) |->
                 findEntry(query.value, missingDependencies[i])])

\* the result of an invocation that reached its await
mapSettled(begun, query) ==
    [threw |-> FALSE, queried |-> TRUE,
     rules |-> mapEnd(begun.smapiRules, begun.missingDependencies, query),
     localRules |-> begun.smapiRules,
     missing |-> begun.missingDependencies,
     posts |-> query.posts]

mapAwait(begun, env) ==
    IF begun.threw
    THEN [threw |-> TRUE, queried |-> FALSE, rules |-> <<>>,
          localRules |-> <<>>, missing |-> <<>>, posts |-> <<>>]
    ELSE mapSettled(begun, sendQuery(missingMods(begun.missingDependencies), TRUE, env))

\* one whole invocation
mapDependencies(mods, dependencies, env) == mapAwait(mapBegin(mods, dependencies), env)

(***************************************************************************)
(* SMAPI_API.ts: getModDependencies.  mods is state.persistent.mods of the *)
(* game as the call finds it: Undef, or the array of the mods, each        *)
(* [id, smapiIDs, modId] with smapiIDs the attribute (an array of ids) or  *)
(* Undef.                                                                  *)
(***************************************************************************)
\* the object normaliseDependencies builds from the values it read
normalised(UniqueID, MinimumVersion, isRequired) ==
    IF ~Truthy(UniqueID) THEN Undef
    ELSE Obj(<<KV("UniqueID", UniqueID),
               KV("isRequired", IF Truthy(isRequired) THEN isRequired ELSE Bool(FALSE))>>
             \o (IF ~Truthy(MinimumVersion)
                 THEN <<KV("MinimumVersion", MinimumVersion)>> ELSE <<>>))

normaliseDependencies(input) ==
    normalised(getManifestValue(input, "UniqueID"),
               getManifestValue(input, "MinimumVersion"),
               getManifestValue(input, "isRequired"))

\* mod.attributes.smapiIDs.find(data => data.id.toLowerCase() === ...)
hasSmapiID(mod, dependency) ==
    \E i \in 1..Len(mod.smapiIDs.arr) :
        toLowerCase(mod.smapiIDs.arr[i]) = toLowerCase(Prop(dependency, "UniqueID").str)

installedRule(matchingMod, dependency) ==
    [reference |-> [id |-> matchingMod.id,
                    repo |-> [repository |-> "nexus", gameId |-> GAME_ID,
                              modId |-> matchingMod.modId],
                    description |-> matchingMod.id],
     downloadHint |-> [mode |-> "browse",
                       url |-> "https://nexusmods.com/" \o GAME_ID \o "/mods/"
                               \o matchingMod.modId],
     extra |-> [required |-> Truthy(Prop(dependency, "isRequired"))]]

\* data.metadata?.name || data.id
nameOrId(name, id) == IF Truthy(name) THEN name.str ELSE id.str

catalogRule(data, rule) ==
    [reference |-> [idHint |-> Prop(data, "id").str,
                    description |-> nameOrId(Prop(Prop(data, "metadata"), "name"),
                                             Prop(data, "id")),
                    instructions |-> "Download the required version."],
     downloadHint |-> [mode |-> "browse",
                       url |-> urlOrDefault(Prop(Prop(Prop(data, "metadata"),
                                                      "main"), "url"))],
     extra |-> [required |-> Truthy(Prop(rule, "isRequired"))]]

\* the entry of unfulfilledRules: <<rule>>, or <<Undef>> for `return;`
unfulfilledRule(rule, found) ==
    IF found = <<>> THEN <<Undef>> ELSE <<catalogRule(found[1], rule)>>

\* the try block after the await; rules.concat.apply([], unfulfilledRules)
\* runs concat on the empty array, and the catch block returns rules
gmdFound(installedRules, unfulfilled, threw, finds) ==
    IF threw \/ \E i \in 1..Len(finds) : finds[i].threw
    THEN [threw |-> FALSE, rules |-> installedRules]
    ELSE [threw |-> FALSE,
          rules |-> [i \in 1..Len(unfulfilled) |->
                        unfulfilledRule(unfulfilled[i], finds[i].found)]]

gmdSettled(installedRules, unfulfilled, smapiRequest) ==
    gmdFound(installedRules, unfulfilled, smapiRequest.threw,
             [i \in 1..Len(unfulfilled) |->
                 findEntry(smapiRequest.value, unfulfilled[i])])

\* the loop over dependencies, given the installed mod matched to each, and
\* the query for the others
gmdMatched(dependencies, matches, env) ==
    gmdSettled(
        Concat([i \in 1..Len(dependencies) |->
                   IF matches[i] = <<>> THEN <<>>
                   ELSE <<(<<installedRule(matches[i][1], dependencies[i])>>)>>]),
        Concat([i \in 1..Len(dependencies) |->
                   IF matches[i] = <<>> THEN <<dependencies[i]>> ELSE <<>>]),
        sendQuery(Concat([i \in 1..Len(dependencies) |->
                             IF matches[i] = <<>>
                             THEN <<[id |-> Prop(dependencies[i], "UniqueID").str]>>
                             ELSE <<>>]),
                  TRUE, env))

\* from Object.values(mods) on: a TypeError for mods undefined, or for a
\* dependency that normalised to undefined
gmdResolve(smapiMods, dependencies, env) ==
    IF \E i \in 1..Len(dependencies) : IsNullish(dependencies[i])
    THEN [threw |-> TRUE, rules |-> <<>>]
    ELSE gmdMatched(dependencies,
                    [i \in 1..Len(dependencies) |->
                        Find(smapiMods,
                             {j \in 1..Len(smapiMods) :
                                 hasSmapiID(smapiMods[j], dependencies[i])})],
                    env)

\* dependencies after the push of the content pack dependency
gmdPushed(contentPackFor, dependencies) ==
    IF Truthy(contentPackFor)
    THEN Append(dependencies,
                Obj(<<KV("UniqueID", Prop(contentPackFor, "UniqueID")),
                      KV("isRequired", Bool(TRUE))>>))
    ELSE dependencies

gmdNormalised(mods, contentPackFor, dependencies, env) ==
    IF ~Truthy(contentPackFor) /\ Len(dependencies) = 0
    THEN [threw |-> FALSE, rules |-> <<>>]
    ELSE IF IsNullish(mods) THEN [threw |-> TRUE, rules |-> <<>>]
    ELSE gmdResolve(SelectSeq(mods.arr, LAMBDA m : Truthy(m.smapiIDs)),
                    gmdPushed(contentPackFor, dependencies), env)

\* (getManifestValue(manifest, 'Dependencies') || []).map(normaliseDependencies)
gmdDeclared(mods, contentPackFor, declared, env) ==
    IF Truthy(declared) /\ ~IsArr(declared) THEN [threw |-> TRUE, rules |-> <<>>]
    ELSE gmdNormalised(mods, contentPackFor,
                       IF Truthy(declared)
                       THEN [i \in 1..Len(declared.arr) |->
                                normaliseDependencies(declared.arr[i])]
                       ELSE <<>>,
                       env)

\* the value is a list of rules, each <<rule>> or <<Undef>>
getModDependencies(mods, manifest, env) ==
    gmdDeclared(mods,
                normaliseDependencies(getManifestValue(manifest, "ContentPackFor")),
                getManifestValue(manifest, "Dependencies"), env)

(***************************************************************************)
(* events/modToggled: modToggled.  The handler reads the state once        *)
(* (mod.rules is the value at that moment), while the manifest objects it  *)
(* reaches through the state are the live ones.                            *)
(***************************************************************************)
\* a property of a rule's reference: <<value>>, or <<>> for undefined
field(reference, name) ==
    IF name \in DOMAIN reference THEN <<reference[name]>> ELSE <<>>

\* existingRules.filter(r => mappedRules.find(mr =>
\*     mr.reference.id === (r.reference as any)?.fileExpression))
rulesToRemove(existingRules, mappedRules) ==
    SelectSeq(existingRules, LAMBDA r :
        \E i \in 1..Len(mappedRules) :
            field(mappedRules[i].reference, "id") = field(r.reference, "fileExpression"))

\* the additions dispatched ahead of the removals
dispatchesAddFirst(manifest, removed, mappedRules) ==
    <<[kind |-> "add", manifest |-> manifest, batch |-> mappedRules],
      [kind |-> "remove", manifest |-> manifest, batch |-> removed]>>

\* the two util.batchDispatch calls of one iteration, in order
dispatches(manifest, removed, mappedRules) ==
    <<[kind |-> "remove", manifest |-> manifest, batch |-> removed],
      [kind |-> "add", manifest |-> manifest, batch |-> mappedRules]>>

\* the store after a batch of removeModRule or of addModRule actions
applyBatch(stored, dispatch) ==
    IF dispatch.kind = "remove"
    THEN SelectSeq(stored, LAMBDA r :
             \A i \in 1..Len(dispatch.batch) : dispatch.batch[i] # r)
    ELSE stored \o dispatch.batch

applyDispatches(stored, log) ==
    LET F[i \in 0..Len(log)] ==
            IF i = 0 THEN stored ELSE applyBatch(F[i - 1], log[i])
    IN  F[Len(log)]

\* the batches go to the first installed mod
dispatchToFirstInstalled(h) == installed[1]

\* the mod the batches are dispatched for: mod.id
dispatchTarget(h) == h.modId

\* the rest of an iteration once mapDependencies returned: nothing when it
\* returned no rule, else the removal batch and the addition batch
reconcile(h, mappedRules) ==
    IF Len(mappedRules) = 0 THEN <<>>
    ELSE dispatches(h.idx, rulesToRemove(h.existingRules, mappedRules), mappedRules)

\* parsed.Dependencies || [], after dependencies.push of the content pack
\* dependency
pushedDependencies(parsed) ==
    IF Truthy(parsed["ContentPackFor"])
    THEN Arr(Append(parsed["Dependencies"].arr,
                    Obj(<<KV("UniqueID", Prop(parsed["ContentPackFor"], "UniqueID")),
                          KV("isRequired", Bool(TRUE))>>)))
    ELSE parsed["Dependencies"]

\* the manifests of the state after the push: the array pushed onto is the
\* stored one when the manifest holds a Dependencies value
liveManifests(manifests, modId, i, parsed, stored, dependencies) ==
    IF /\ Truthy(parsed["ContentPackFor"])
       /\ stored # <<>>
       /\ Truthy(Prop(manifests[modId].obj[i].v, stored[1]))
    THEN [manifests EXCEPT ![modId] =
            Obj([@.obj EXCEPT ![i] = KV(@.k, SetProp(@.v, stored[1], dependencies))])]
    ELSE manifests

\* the start of mapDependencies, with the manifests as the push left them
begunWith(live, begun) ==
    [threw |-> begun.threw, manifests |-> live, smapiRules |-> begun.smapiRules,
     missingDependencies |-> begun.missingDependencies]

beginMapped(ids, live, dependencies) ==
    begunWith(live, mapBegin(modArray(ids, live), dependencies))

beginParsed(ids, manifests, modId, i, parsed, stored) ==
    IF Truthy(parsed["ContentPackFor"]) /\ ~IsArr(parsed["Dependencies"])
    THEN [threw |-> TRUE, manifests |-> manifests,
          smapiRules |-> <<>>, missingDependencies |-> <<>>]
    ELSE beginMapped(ids,
                     liveManifests(manifests, modId, i, parsed, stored,
                                   pushedDependencies(parsed)),
                     pushedDependencies(parsed))

\* one iteration of the loop up to the await inside mapDependencies: the
\* manifest is parsed, the content pack dependency is pushed onto the
\* Dependencies array and the installed mods are searched
beginManifest(ids, manifests, modId, i) ==
    beginParsed(ids, manifests, modId, i,
                SMAPIManifestClass(manifests[modId].obj[i].v),
                ManifestKey(manifests[modId].obj[i].v, "Dependencies"))

\* the handler returns at once: another game, an unknown mod, no manifests
returnsEarly(gameId, modId) ==
    \/ gameId # GAME_ID
    \/ \A i \in 1..Len(installed) : installed[i] # modId
    \/ ~Truthy(smapiManifests[modId])
    \/ Len(Keys(smapiManifests[modId])) = 0

\* the mod-enabled event: modToggled runs to its first await
ModEnabled(gameId, modId) ==
    /\ events < MaxEvents
    /\ events' = events + 1
    /\ UNCHANGED <<installed, rules, call, SMAPI_BUNDLED_MODS>>
    /\ IF returnsEarly(gameId, modId)
       THEN UNCHANGED <<smapiManifests, handlers, finished>>
       ELSE \E b \in {beginManifest(installed, smapiManifests, modId, 1)} :
            \E h \in {[event |-> events + 1, modId |-> modId,
                       after |-> Len(finished), alone |-> handlers = {},
                       existingRules |-> rules[modId], idx |-> 1,
                       smapiRules |-> b.smapiRules,
                       missingDependencies |-> b.missingDependencies,
                       log |-> <<>>, mapped |-> <<>>, posts |-> <<>>,
                       status |-> IF b.threw THEN "rejected" ELSE "awaiting"]} :
                /\ smapiManifests' = b.manifests
                /\ IF b.threw
                   THEN finished' = Append(finished, h) /\ UNCHANGED handlers
                   ELSE handlers' = handlers \cup {h} /\ UNCHANGED finished

\* the handler after the iteration that ended: the next iteration up to its
\* await, or the end of the loop
Continue(h, g) ==
    IF h.idx < Len(smapiManifests[h.modId].obj)
    THEN \E b \in {beginManifest(installed, smapiManifests, h.modId, h.idx + 1)} :
         \E n \in {[g EXCEPT !.idx = h.idx + 1,
                             !.smapiRules = b.smapiRules,
                             !.missingDependencies = b.missingDependencies,
                             !.status = IF b.threw THEN "rejected" ELSE "awaiting"]} :
             /\ smapiManifests' = b.manifests
             /\ IF b.threw
                THEN /\ finished' = Append(finished, n)
                     /\ handlers' = handlers \ {h}
                ELSE /\ handlers' = (handlers \ {h}) \cup {n}
                     /\ UNCHANGED finished
    ELSE /\ finished' = Append(finished, [g EXCEPT !.status = "resolved"])
         /\ handlers' = handlers \ {h}
         /\ UNCHANGED smapiManifests

\* sendQuery settles for a suspended handler: the rest of mapDependencies,
\* the two batches, and the next iteration up to its await
QuerySettles(h, env) ==
    /\ h \in handlers
    /\ UNCHANGED <<installed, events, call, SMAPI_BUNDLED_MODS>>
    /\ \E query \in {sendQuery(missingMods(h.missingDependencies), TRUE, env)} :
       \E mappedRules \in {mapEnd(h.smapiRules, h.missingDependencies, query)} :
       \E sent \in {reconcile(h, mappedRules)} :
           /\ rules' = [rules EXCEPT ![dispatchTarget(h)] = applyDispatches(@, sent)]
           /\ Continue(h, [h EXCEPT !.log = @ \o sent,
                                    !.mapped = Append(@, mappedRules),
                                    !.posts = @ \o query.posts])

(***************************************************************************)
(* The values the model draws from.                                        *)
(***************************************************************************)
SeqsUpTo(S, n) == UNION {[1..k -> S] : k \in 0..n}

DepB == Obj(<<KV("UniqueID", Str("B")), KV("isRequired", Bool(TRUE))>>)

DepBMin1 ==
    Obj(<<KV("UniqueID", Str("B")), KV("isRequired", Bool(TRUE)),
          KV("MinimumVersion", Str("1.0.0"))>>)

DepBMin2 == Obj(<<KV("UniqueID", Str("B")), KV("MinimumVersion", Str("2.0.0"))>>)

DepFoo == Obj(<<KV("UniqueID", Str("Foo.Mod")), KV("isRequired", Bool(FALSE))>>)

DepFooLower == Obj(<<KV("UniqueID", Str("foo.mod")), KV("isRequired", Bool(TRUE))>>)

DepX == Obj(<<KV("UniqueID", Str("X")), KV("isRequired", Bool(TRUE))>>)

DepNoId == Obj(<<KV("isRequired", Bool(TRUE))>>)

DepLowerKeys == Obj(<<KV("uniqueid", Str("B")), KV("IsRequired", Bool(TRUE))>>)

DepPool ==
    {DepB, DepBMin1, DepBMin2, DepFoo, DepFooLower, DepX, DepNoId, DepLowerKeys, Null}

\* a stored manifest: deps and packFor are <<value>>, or <<>> when absent
StoredManifest(id, version, deps, packFor) ==
    Obj(<<KV("UniqueID", Str(id)), KV("Version", Str(version))>>
        \o (IF deps = <<>> THEN <<>> ELSE <<KV("Dependencies", deps[1])>>)
        \o (IF packFor = <<>> THEN <<>> ELSE <<KV("ContentPackFor", packFor[1])>>))

PackForC == Obj(<<KV("UniqueID", Str("C"))>>)

ModIds == {"owner", "mod-b", "mod-b1", "mod-f", "mod-z"}

\* the manifests attribute of the mods other than the owner
BundledManifests(id) ==
    CASE id = "mod-b" ->
            Obj(<<KV("B", StoredManifest("B", "1.2.0", <<Arr(<<>>)>>, <<>>))>>)
      [] id = "mod-b1" ->
            Obj(<<KV("B", StoredManifest("B", "1.0.0", <<Arr(<<>>)>>, <<>>))>>)
      [] id = "mod-f" ->
            Obj(<<KV("Foo.Mod",
                     StoredManifest("Foo.Mod", "1.0.0", <<Arr(<<DepB>>)>>, <<>>))>>)
      [] OTHER -> Undef

\* the smapiIDs and modId attributes of a mod, as getModDependencies reads them
ModAttributes(id) ==
    CASE id = "mod-b" -> [id |-> id, smapiIDs |-> Arr(<<"B">>), modId |-> "2400"]
      [] id = "mod-b1" -> [id |-> id, smapiIDs |-> Arr(<<"b">>), modId |-> "2401"]
      [] id = "mod-f" -> [id |-> id, smapiIDs |-> Arr(<<"Foo.Mod">>), modId |-> ""]
      [] OTHER -> [id |-> id, smapiIDs |-> Undef, modId |-> ""]

\* state.persistent.mods[GAME_ID] as getModDependencies finds it
stateMods(ids) ==
    IF ids = <<>> THEN Undef ELSE Arr([i \in 1..Len(ids) |-> ModAttributes(ids[i])])

EntryB ==
    Obj(<<KV("id", Str("B")),
          KV("metadata", Obj(<<KV("name", Str("Mod B")),
                               KV("main", Obj(<<KV("url", Str("https://example/b"))>>))>>))>>)

EntryX == Obj(<<KV("id", Str("x"))>>)

EntryFoo == Obj(<<KV("id", Str("foo.mod")), KV("metadata", Obj(<<KV("name", Str("Foo"))>>))>>)

\* the bodies a response can carry: arrays of entries, in any order, and the
\* malformed ones (an error object, an entry that has no id)
Responses ==
    {Arr(<<>>), Arr(<<EntryX, EntryB>>), Arr(<<EntryFoo>>),
     Obj(<<KV("error", Str("Bad Request"))>>),
     Arr(<<Obj(<<KV("errors", Arr(<<>>))>>), EntryB>>)}

Platforms == {"win32", "linux", "darwin"}

\* what a call can meet: the game unknown to the host, no installed
\* version, a POST that throws, and a response
Envs ==
    {[game |-> FALSE, version |-> <<1, 5, 6, 1>>, platform |-> "linux",
      post |-> "ok", data |-> Arr(<<>>)],
     [game |-> TRUE, version |-> <<>>, platform |-> "linux",
      post |-> "ok", data |-> Arr(<<>>)]}
    \cup {[game |-> TRUE, version |-> <<1, 5, 6, 1>>, platform |-> p,
           post |-> "error", data |-> Arr(<<>>)] : p \in Platforms}
    \cup {[game |-> TRUE, version |-> <<1, 5, 6>>, platform |-> "linux",
           post |-> "ok", data |-> d] : d \in Responses}

\* what a handler can meet
HandlerEnvs ==
    {e \in Envs : /\ e.platform = "linux"
                  /\ e.data \in {Arr(<<>>), Arr(<<EntryX, EntryB>>),
                                 Obj(<<KV("error", Str("Bad Request"))>>)}}

\* rules a mod can hold before the first event: one the user made, and an
\* unresolved one left by an earlier reconciliation
UserRule == [type |-> "after", reference |-> [id |-> "mod-z"]]

InitialRules == {<<>>, <<UserRule, unresolvedRule(DepX)>>}

\* the Dependencies of the owner's first manifest: a string, arrays
OwnerDependencies ==
    {<<Str("B")>>, <<Arr(<<>>)>>, <<Arr(<<DepB>>)>>, <<Arr(<<DepX>>)>>,
     <<Arr(<<DepX, DepB>>)>>, <<Arr(<<DepB, Null>>)>>}

\* the owner bundles one manifest, or two
OwnerManifests ==
    {Obj(<<KV("A", StoredManifest("A", "1.0.0", deps, packFor))>> \o second) :
        deps \in OwnerDependencies, packFor \in {<<>>, <<PackForC>>},
        second \in {<<>>,
                    <<KV("A2", StoredManifest("A2", "1.0.0", <<Arr(<<DepX>>)>>, <<>>))>>}}

EventTargets ==
    {<<GAME_ID, m>> : m \in {"owner", "mod-f", "ghost"}} \cup {<<"skyrimse", "owner">>}

NoCall == [fn |-> "none"]

\* _SMAPI_BUNDLED_MODS as the module defines it
BundledWithSMAPI == <<"ErrorHandler", "ConsoleCommands", "SaveBackup">>

(***************************************************************************)
(* The reconciler: mod-enabled events and the handlers they start.         *)
(***************************************************************************)
Init ==
    /\ \E beside \in {<<>>, <<"mod-f", "mod-b">>} : installed = <<"owner">> \o beside
    /\ \E own \in OwnerManifests :
           smapiManifests = [id \in ModIds |->
                                IF id = "owner" THEN own ELSE BundledManifests(id)]
    /\ \E initial \in InitialRules :
           rules = [id \in ModIds |-> IF id = "owner" THEN initial ELSE <<>>]
    /\ handlers = {}
    /\ finished = <<>>
    /\ events = 0
    /\ call = NoCall
    /\ SMAPI_BUNDLED_MODS = BundledWithSMAPI

Next ==
    \/ \E t \in EventTargets : ModEnabled(t[1], t[2])
    \/ \E h \in handlers, env \in HandlerEnvs : QuerySettles(h, env)

Spec == Init /\ [][Next]_vars

(***************************************************************************)
(* The resolver functions called once: the input is drawn in the initial   *)
(* state and the call settles in one step.                                 *)
(***************************************************************************)
\* manifests as parsed from a manifest.json, keys in either case
RawManifests ==
    {Obj((IF deps = <<>> THEN <<>> ELSE <<KV(key, deps[1])>>)
         \o (IF packFor = <<>> THEN <<>> ELSE <<KV("ContentPackFor", packFor[1])>>)) :
        key \in {"Dependencies", "dependencies"},
        deps \in {<<>>, <<Str("B")>>}
                 \cup {<<Arr(l)>> :
                          l \in SeqsUpTo({DepB, DepX, DepNoId, DepLowerKeys, DepFooLower},
                                         MaxDeps)},
        packFor \in {<<>>, <<PackForC>>}}

PendingCalls ==
    {[fn |-> "mapDependencies", state |-> "pending", dependencies |-> d] :
        d \in {Str("B")} \cup {Arr(l) : l \in SeqsUpTo(DepPool, MaxDeps)}}
    \cup {[fn |-> "sendQuery", state |-> "pending", mods |-> m, includeMeta |-> b] :
            m \in SeqsUpTo({[id |-> "B"], [id |-> "X"]}, MaxDeps), b \in BOOLEAN}
    \cup {[fn |-> "getModDependencies", state |-> "pending", manifest |-> m] :
            m \in RawManifests}

InitCalls ==
    /\ installed \in
          {<<>>} \cup {<<"owner">> \o beside :
                          beside \in {<<>>, <<"mod-z", "mod-b">>, <<"mod-b1", "mod-b">>,
                                      <<"mod-f", "mod-b">>}}
    /\ smapiManifests =
          [id \in ModIds |->
              IF id = "owner"
              THEN Obj(<<KV("A", StoredManifest("A", "1.0.0", <<Arr(<<>>)>>, <<>>))>>)
              ELSE BundledManifests(id)]
    /\ rules = [id \in ModIds |-> <<>>]
    /\ handlers = {}
    /\ finished = <<>>
    /\ events = 0
    /\ call \in PendingCalls
    /\ SMAPI_BUNDLED_MODS = BundledWithSMAPI

MapDependenciesCall(env) ==
    /\ call.fn = "mapDependencies" /\ call.state = "pending"
    /\ call' = [fn |-> call.fn, state |-> "done", dependencies |-> call.dependencies,
                env |-> env,
                result |-> mapDependencies(modArray(installed, smapiManifests),
                                           call.dependencies, env)]
    /\ UNCHANGED storeVars

SendQueryCall(env) ==
    /\ call.fn = "sendQuery" /\ call.state = "pending"
    /\ call' = [fn |-> call.fn, state |-> "done", mods |-> call.mods,
                includeMeta |-> call.includeMeta, env |-> env,
                result |-> sendQuery(call.mods, call.includeMeta, env)]
    /\ UNCHANGED storeVars

GetModDependenciesCall(env) ==
    /\ call.fn = "getModDependencies" /\ call.state = "pending"
    /\ call' = [fn |-> call.fn, state |-> "done", manifest |-> call.manifest,
                env |-> env,
                result |-> getModDependencies(stateMods(installed), call.manifest, env)]
    /\ UNCHANGED storeVars

NextCalls ==
    \/ \E env \in Envs : MapDependenciesCall(env)
    \/ \E env \in Envs : SendQueryCall(env)
    \/ \E env \in Envs : GetModDependenciesCall(env)

SpecCalls == InitCalls /\ [][NextCalls]_vars

(***************************************************************************)
(* Properties of mapDependencies and sendQuery, read off a settled call.   *)
(***************************************************************************)
Range(s) == {s[i] : i \in 1..Len(s)}

\* the catalog query of the call failed: no game, no version, or the POST threw
queryFailed(env) == ~env.game \/ env.version = <<>> \/ env.post = "error"

\* the response is an array whose entries all carry an id
responseWellFormed(env) ==
    /\ IsArr(env.data)
    /\ \A i \in 1..Len(env.data.arr) : IsStr(Prop(env.data.arr[i], "id"))

\* mapDependencies was called with an array of declarations and has settled
mapDone ==
    /\ call.fn = "mapDependencies"
    /\ call.state = "done"
    /\ IsArr(call.dependencies)
    /\ \A i \in 1..Len(call.dependencies.arr) : IsObj(call.dependencies.arr[i])

\* the declared, non-empty ids of the call
declaredIds ==
    {Prop(d, "UniqueID").str : d \in {e \in Range(call.dependencies.arr) :
                                          Truthy(Prop(e, "UniqueID"))}}

\* the version text an unresolved rule carries for a declaration
expectedVersion(dep) ==
    IF Truthy(Prop(dep, "MinimumVersion"))
    THEN Prop(dep, "MinimumVersion").str \o "^"
    ELSE "*"

\* an installed mod bundles a manifest whose id is uid up to letter case
bundledIgnoringCase(uid) ==
    \E i \in 1..Len(installed) :
        \E k \in Range(Keys(smapiManifests[installed[i]])) :
            toLowerCase(k) = toLowerCase(uid)

\* an installed mod bundles the manifest uid in a version of at least minimum
bundledAtLeast(uid, minimum) ==
    \E i \in 1..Len(installed) :
        /\ IsStr(Prop(Prop(smapiManifests[installed[i]], uid), "Version"))
        /\ SemverGte(SemverParse(Prop(Prop(smapiManifests[installed[i]], uid),
                                      "Version").str),
                     SemverParse(SemverCoerce(minimum)))

\* C1: for every dependency list, installed-mod set and catalog outcome,
\* mapDependencies returns one rule per distinct non-empty declared uniqueId,
\* and the Local rules it computed are in the returned list whatever the
\* catalog lookup of the other dependencies did.
C1_OneRulePerDependency ==
    mapDone =>
        /\ ~call.result.threw
        /\ Len(call.result.rules) = Cardinality(declaredIds)
        /\ \A i \in 1..Len(call.result.localRules) :
               call.result.localRules[i] \in Range(call.result.rules)

\* C2: when the catalog query fails (the game or its version is unavailable,
\* or the POST throws), mapDependencies does not throw and returns, after the
\* Local rules, exactly one Unresolved rule per dependency sent to the
\* catalog, with fileExpression the declared uniqueId and version the
\* declared minimum followed by a caret, or '*'.
C2_FailedQueryYieldsUnresolved ==
    (mapDone /\ call.result.queried /\ queryFailed(call.env)) =>
        /\ ~call.result.threw
        /\ Len(call.result.rules) =
              Len(call.result.localRules) + Len(call.result.missing)
        /\ \A i \in 1..Len(call.result.missing) :
               call.result.rules[Len(call.result.localRules) + i].reference =
                   [version |-> expectedVersion(call.result.missing[i]),
                    fileExpression |->
                        Prop(call.result.missing[i], "UniqueID").str]

\* C2 witness: the POST threw for two dependencies sent to the catalog, one
\* of them declaring a minimum version, and both rules came back.
C2_Witness ==
    /\ mapDone
    /\ call.env.post = "error"
    /\ Len(call.result.missing) = 2
    /\ Len(call.result.rules) = 2
    /\ \E i \in 1..2 : Truthy(Prop(call.result.missing[i], "MinimumVersion"))

\* C3: declarations whose uniqueId differ only in letter case are collapsed
\* to the first declared one: with a well-formed response there is one rule
\* per uniqueId up to case, and [Foo.Mod not required, foo.mod required]
\* yields exactly one rule, of type 'recommends'.
C3_DedupeIgnoresCase ==
    (mapDone /\ responseWellFormed(call.env)) =>
        /\ Len(call.result.rules) =
              Cardinality({toLowerCase(id) : id \in declaredIds})
        /\ call.dependencies = Arr(<<DepFoo, DepFooLower>>) =>
              /\ Len(call.result.rules) = 1
              /\ call.result.rules[1].type = "recommends"

\* C4: the local match ignores the letter case of the uniqueId: a dependency
\* without minimum version is sent to the catalog only if no installed mod
\* bundles a manifest whose id equals its uniqueId up to case.
C4_LocalMatchIgnoresCase ==
    mapDone =>
        \A i \in 1..Len(call.result.missing) :
            ~Truthy(Prop(call.result.missing[i], "MinimumVersion")) =>
                ~bundledIgnoringCase(Prop(call.result.missing[i], "UniqueID").str)

\* C5: a dependency that declares a minimum version is sent to the catalog
\* exactly when no installed manifest of that uniqueId has a Version of at
\* least the coerced minimum: Version 1.2.0 satisfies 1.0.0, not 2.0.0.
C5_MinimumVersionSatisfied ==
    mapDone =>
        \A i \in 1..Len(call.dependencies.arr) :
            (/\ Truthy(Prop(call.dependencies.arr[i], "UniqueID"))
             /\ IsStr(Prop(call.dependencies.arr[i], "MinimumVersion"))
             /\ \A j \in 1..(i - 1) :
                    Prop(call.dependencies.arr[j], "UniqueID") #
                        Prop(call.dependencies.arr[i], "UniqueID"))
            => (call.dependencies.arr[i] \in Range(call.result.missing)
                <=> ~bundledAtLeast(Prop(call.dependencies.arr[i], "UniqueID").str,
                                    Prop(call.dependencies.arr[i],
                                         "MinimumVersion").str))

\* C10: sendQuery never rejects, and when the game version cannot be
\* obtained or the POST throws, the failure is logged and the result is the
\* empty sequence.
C10_SendQueryNeverRejects ==
    (call.fn = "sendQuery" /\ call.state = "done") =>
        /\ ~call.result.threw
        /\ queryFailed(call.env) =>
              call.result.value = Arr(<<>>) /\ call.result.logged

\* C10 witness: a call for two mods whose POST threw has settled.
C10_Witness ==
    /\ call.fn = "sendQuery"
    /\ call.state = "done"
    /\ call.env.post = "error"
    /\ Len(call.mods) = 2
    /\ call.result.posts # <<>>

(***************************************************************************)
(* Properties of modToggled, read off the handlers' dispatch logs.         *)
(***************************************************************************)
\* every invocation that went past the early returns
invocations == handlers \cup Range(finished)

\* the uniqueId a computed rule was declared with, where the rule carries
\* it: <<uid>>, or <<>> for a Remote rule, which carries the catalog's id
declaredId(rule) ==
    IF "fileExpression" \in DOMAIN rule.reference
    THEN <<rule.reference.fileExpression>>
    ELSE IF "versionMatch" \in DOMAIN rule.reference
    THEN <<rule.reference.description>>
    ELSE <<>>

\* two runs for the owner, the second started after the first had ended,
\* that computed the same rules
ranTwice ==
    /\ Len(finished) = 2
    /\ \A i \in 1..2 : finished[i].modId = "owner" /\ finished[i].status = "resolved"
    /\ finished[2].after = 1
    /\ finished[1].mapped = finished[2].mapped

\* C6: when modToggled runs twice for the same owner with the installed mods
\* and the catalog responses unchanged, the removal batches of the second
\* run contain every rule the first run added, and its addition batches are
\* the newly computed rules.
C6_SecondRunRemovesFirstRunsRules ==
    ranTwice =>
        /\ \A p \in 1..Len(finished[1].log) :
               finished[1].log[p].kind = "add" =>
                   \A r \in Range(finished[1].log[p].batch) :
                       \E q \in 1..Len(finished[2].log) :
                           /\ finished[2].log[q].kind = "remove"
                           /\ r \in Range(finished[2].log[q].batch)
        /\ \A q \in 1..Len(finished[2].log) :
               finished[2].log[q].kind = "add" =>
                   finished[2].log[q].batch =
                       finished[2].mapped[finished[2].log[q].manifest]

\* C7 as stated: within one event, for any number of manifests, removals are
\* dispatched as one batch and additions as one batch, every removal before
\* any addition.
C7_OneBatchEach ==
    \A h \in invocations :
        /\ Cardinality({p \in 1..Len(h.log) : h.log[p].kind = "remove"}) <= 1
        /\ Cardinality({p \in 1..Len(h.log) : h.log[p].kind = "add"}) <= 1
        /\ \A p, q \in 1..Len(h.log) :
               (h.log[p].kind = "remove" /\ h.log[q].kind = "add") => p < q

\* C7 amended: within one event, each bundled manifest for which rules are
\* computed gets one removal batch and, right after it, one addition batch
\* that holds the rules computed for it; the manifests are served in
\* order, so the batches of one manifest come before those of the next.
C7_OneBatchEachPerManifest ==
    \A h \in invocations :
        /\ Len(h.log) % 2 = 0
        /\ \A p \in 1..Len(h.log) :
               IF p % 2 = 1
               THEN /\ h.log[p].kind = "remove"
                    /\ p > 1 => h.log[p - 1].manifest < h.log[p].manifest
               ELSE /\ h.log[p].kind = "add"
                    /\ h.log[p].manifest = h.log[p - 1].manifest
                    /\ h.log[p].batch = h.mapped[h.log[p].manifest]
                    /\ h.log[p].batch # <<>>

\* C7 witness: an invocation for an owner with two manifests has ended with
\* four batches dispatched.
C7_Witness ==
    \E i \in 1..Len(finished) :
        /\ finished[i].status = "resolved"
        /\ Len(finished[i].log) = 4
        /\ finished[i].log[3].kind = "remove"

\* C8: a stored rule is in the removal batch whenever its fileExpression is
\* the declared uniqueId of a dependency whose rule is newly computed for
\* the manifest, Local or Unresolved alike, and the addition batch holds
\* every newly computed rule.
C8_RemovalByFileExpression ==
    \A h \in invocations :
        \A p \in 1..Len(h.log) :
            IF h.log[p].kind = "remove"
            THEN \A r \in Range(h.existingRules) :
                     (\E m \in Range(h.mapped[h.log[p].manifest]) :
                          /\ declaredId(m) # <<>>
                          /\ declaredId(m) = field(r.reference, "fileExpression"))
                     => r \in Range(h.log[p].batch)
            ELSE h.log[p].batch = h.mapped[h.log[p].manifest]

\* C9: modToggled never rejects, whatever the stored manifests hold and
\* whatever the catalog answers: every invocation ends resolved.
C9_HandlersNeverReject ==
    \A i \in 1..Len(finished) : finished[i].status # "rejected"

\* C11: handling mod-enabled events leaves the installed mods and the
\* manifests stored on them as they were, the Dependencies list of each
\* manifest included: no step changes installed or smapiManifests.
C11_ManifestsNeverChange ==
    [][installed' = installed /\ smapiManifests' = smapiManifests]_vars

\* the only invocation for its mod
aloneOnItsMod(h) == \A g \in invocations : g.modId = h.modId => g = h

\* C12: a handler dispatches rule actions for its own mod only: a step
\* changes the rules of a mod only when a handler for that mod moves on;
\* and a mod that one handler reconciles holds, however the handlers of
\* other mods interleave with it, the rules that handler found with its
\* own batches applied, as if it had run alone.
C12_ScopedToOwner ==
    /\ [](\A h \in invocations :
              aloneOnItsMod(h) =>
                  rules[h.modId] = applyDispatches(h.existingRules, h.log))
    /\ [][\A m \in ModIds :
              rules'[m] # rules[m] =>
                  \E h \in handlers : h.modId = m /\ h \notin handlers']_vars

\* C12 witness: the handlers of two different mods have both ended with
\* batches dispatched, the second begun while the first was suspended.
C12_Witness ==
    /\ Len(finished) = 2
    /\ handlers = {}
    /\ finished[1].modId # finished[2].modId
    /\ \A i \in 1..2 : finished[i].status = "resolved" /\ finished[i].log # <<>>
    /\ \E i \in 1..2 : ~finished[i].alone

(***************************************************************************)
(* Properties of the rules mapDependencies builds from the catalog.        *)
(***************************************************************************)
\* the entries of the response the call received whose id is uid up to
\* letter case: none when the query failed or the body is no array
responseEntries(env, uid) ==
    IF queryFailed(env) \/ ~IsArr(env.data) THEN {}
    ELSE {e \in Range(env.data.arr) :
              /\ IsStr(Prop(e, "id"))
              /\ toLowerCase(Prop(e, "id").str) = toLowerCase(uid)}

\* the rules of the call that stand for the declared id uid: the Unresolved
\* ones that carry it and the Remote ones whose catalog id is uid up to case
externalRulesFor(uid) ==
    {k \in 1..Len(call.result.rules) :
        \/ /\ "fileExpression" \in DOMAIN call.result.rules[k].reference
           /\ call.result.rules[k].reference.fileExpression = uid
        \/ /\ "idHint" \in DOMAIN call.result.rules[k].reference
           /\ toLowerCase(call.result.rules[k].reference.idHint) = toLowerCase(uid)}

\* C13: a dependency that is not matched to an installed mod and has no
\* entry in the catalog response gets exactly one rule, an Unresolved one
\* whose fileExpression is the declared uniqueId in its own letter case and
\* whose version is the declared minimum followed by a caret, or '*'.
C13_AbsentIsUnresolved ==
    mapDone =>
        \A i \in 1..Len(call.result.missing) :
            responseEntries(call.env, Prop(call.result.missing[i], "UniqueID").str) = {}
            => /\ Cardinality(externalRulesFor(
                      Prop(call.result.missing[i], "UniqueID").str)) = 1
               /\ \A k \in externalRulesFor(
                               Prop(call.result.missing[i], "UniqueID").str) :
                      call.result.rules[k].reference =
                          [version |-> expectedVersion(call.result.missing[i]),
                           fileExpression |->
                               Prop(call.result.missing[i], "UniqueID").str]

\* C13 witness: the catalog answered with entries for other mods only, and
\* a dependency with a minimum version that no installed mod bundles came
\* back as a rule.
C13_Witness ==
    /\ mapDone
    /\ ~queryFailed(call.env)
    /\ IsArr(call.env.data) /\ Len(call.env.data.arr) > 0
    /\ \E i \in 1..Len(call.result.missing) :
           /\ Truthy(Prop(call.result.missing[i], "MinimumVersion"))
           /\ ~bundledIgnoringCase(Prop(call.result.missing[i], "UniqueID").str)
           /\ responseEntries(call.env,
                              Prop(call.result.missing[i], "UniqueID").str) = {}
           /\ externalRulesFor(Prop(call.result.missing[i], "UniqueID").str) # {}

\* the page a Remote rule is to point at for a catalog entry
expectedUrl(entry) ==
    IF /\ IsStr(Prop(Prop(Prop(entry, "metadata"), "main"), "url"))
       /\ Prop(Prop(Prop(entry, "metadata"), "main"), "url").str # ""
    THEN Prop(Prop(Prop(entry, "metadata"), "main"), "url").str
    ELSE "https://nexusmods.com/stardewvalley/mods/"

\* the rule the call returned for its i-th dependency without a local match
ruleOfMissing(i) == call.result.rules[Len(call.result.localRules) + i]

\* rule is a Remote rule for the catalog entry, of the kind dep asks for
isRemoteFor(rule, dep, entry) ==
    /\ "downloadHint" \in DOMAIN rule
    /\ rule.downloadHint.url = expectedUrl(entry)
    /\ rule.reference.idHint = Prop(entry, "id").str
    /\ rule.type = (IF Prop(dep, "isRequired") = Bool(TRUE)
                    THEN "requires" ELSE "recommends")

\* C14: when the catalog answers with a list of entries, every dependency
\* without a local match whose uniqueId is the id of an entry up to letter
\* case gets exactly one rule, a Remote one: its downloadHint.url is the
\* entry's metadata.main.url, or the mods page of the game when the entry
\* has none, and its kind follows isRequired; the place of the entry in the
\* response plays no part.
C14_CatalogEntryIsRemote ==
    (mapDone /\ ~queryFailed(call.env) /\ responseWellFormed(call.env)) =>
        /\ Len(call.result.rules) =
               Len(call.result.localRules) + Len(call.result.missing)
        /\ \A i \in 1..Len(call.result.missing) :
               \A e \in responseEntries(call.env,
                            Prop(call.result.missing[i], "UniqueID").str) :
                   isRemoteFor(ruleOfMissing(i), call.result.missing[i], e)

\* C14 witness: two dependencies without a local match were both found in
\* the response, one at an entry that carries a page and is not the first of
\* the response, one at an entry without a page whose id differs in case.
C14_Witness ==
    /\ mapDone /\ ~queryFailed(call.env) /\ responseWellFormed(call.env)
    /\ \E i, j \in 1..Len(call.result.missing) :
           /\ \E e \in responseEntries(call.env,
                           Prop(call.result.missing[i], "UniqueID").str) :
                  /\ e # call.env.data.arr[1]
                  /\ ruleOfMissing(i).downloadHint.url = "https://example/b"
           /\ \E e \in responseEntries(call.env,
                           Prop(call.result.missing[j], "UniqueID").str) :
                  /\ Prop(e, "id").str # Prop(call.result.missing[j], "UniqueID").str
                  /\ ruleOfMissing(j).downloadHint.url =
                         "https://nexusmods.com/stardewvalley/mods/"

\* the declared ids of the call in declaration order, each at its first
\* occurrence
declaredOrder ==
    SelectSeq([i \in 1..Len(call.dependencies.arr) |->
                  IF /\ Truthy(Prop(call.dependencies.arr[i], "UniqueID"))
                     /\ \A j \in 1..(i - 1) :
                            Prop(call.dependencies.arr[j], "UniqueID") #
                                Prop(call.dependencies.arr[i], "UniqueID")
                  THEN Prop(call.dependencies.arr[i], "UniqueID").str
                  ELSE ""],
              LAMBDA id : id # "")

\* the id a rule stands for: the declared one, or the catalog's
subjectOf(rule) ==
    IF "fileExpression" \in DOMAIN rule.reference THEN rule.reference.fileExpression
    ELSE IF "idHint" \in DOMAIN rule.reference THEN rule.reference.idHint
    ELSE rule.reference.description

\* C19: the rules one mapDependencies invocation returns are in the order
\* in which the dependencies were declared (after deduplication), whether
\* they were resolved locally, remotely or not at all.
C19_DeclarationOrder ==
    mapDone =>
        \A k, l \in 1..Len(call.result.rules) :
            k < l =>
                \E a, b \in 1..Len(declaredOrder) :
                    /\ a < b
                    /\ toLowerCase(declaredOrder[a]) =
                           toLowerCase(subjectOf(call.result.rules[k]))
                    /\ toLowerCase(declaredOrder[b]) =
                           toLowerCase(subjectOf(call.result.rules[l]))

\* C20: one mapDependencies invocation causes at most one POST to the
\* catalog, however many dependencies have no local match, and one call of
\* sendQuery attempts the POST at most once: an attempt that throws is not
\* repeated.
C20_AtMostOnePost ==
    (call.fn \in {"mapDependencies", "sendQuery"} /\ call.state = "done") =>
        Len(call.result.posts) <= 1

\* C20 witness: an invocation with two dependencies without a local match
\* sent one request that named both, and the POST threw.
C20_Witness ==
    /\ mapDone
    /\ Len(call.result.missing) = 2
    /\ call.env.post = "error"
    /\ Len(call.result.posts) = 1
    /\ Len(call.result.posts[1].mods) = 2

(***************************************************************************)
(* Content packs.                                                          *)
(***************************************************************************)
\* the dependency the handler pushes for a content pack for C
PackDependency == Obj(<<KV("UniqueID", Str("C")), KV("isRequired", Bool(TRUE))>>)

\* the owner's manifest A is a content pack for C that declared no
\* dependency of its own: its list holds what the handler pushed, if anything
ownerPackOnly ==
    /\ Prop(Prop(smapiManifests["owner"], "A"), "ContentPackFor") = PackForC
    /\ IsArr(Prop(Prop(smapiManifests["owner"], "A"), "Dependencies"))
    /\ \A d \in Range(Prop(Prop(smapiManifests["owner"], "A"), "Dependencies").arr) :
           d = PackDependency

\* C15: for an owner manifest that is a content pack for C and declares no
\* dependency itself, every run of the handler, the first and each repeat,
\* resolves exactly one dependency on C, required, and computes exactly one
\* rule for the manifest, of type 'requires'.
C15_ContentPackOnce ==
    ownerPackOnly =>
        \A h \in invocations :
            h.modId = "owner" =>
                /\ (h.idx = 1 /\ h.status = "awaiting") =>
                       Len(h.smapiRules) + Len(h.missingDependencies) = 1
                /\ h.mapped # <<>> =>
                       /\ Len(h.mapped[1]) = 1
                       /\ h.mapped[1][1].type = "requires"
                       /\ declaredId(h.mapped[1][1]) = <<"C">>

\* C15 witness: the handler ran twice for the content pack, the second run
\* after the first had ended, and each run computed one rule for it.
C15_Witness ==
    /\ ownerPackOnly
    /\ Len(finished) = 2
    /\ \A i \in 1..2 : /\ finished[i].modId = "owner"
                       /\ finished[i].status = "resolved"
                       /\ Len(finished[i].mapped[1]) = 1
    /\ finished[2].after = 1

(***************************************************************************)
(* types/smapi-types: what an instance of SMAPIManifestClass holds.        *)
(***************************************************************************)
\* the fields in the order the constructor assigns them
FieldOrder ==
    <<"Name", "Author", "Version", "Description", "UniqueID", "EntryDll",
      "MinimumApiVersion", "UpdateKeys", "ContentPackFor", "Dependencies",
      "ModUpdater">>

\* toJSON(): a new object with the eleven fields, undefined for what the
\* raw manifest did not carry.  The own properties of the instance are the
\* same keys with the same values.
toJSON(instance) ==
    Obj([i \in 1..Len(FieldOrder) |-> KV(FieldOrder[i], instance[FieldOrder[i]])])

(***************************************************************************)
(* installers/smapi-mods: install.  reads[i] is what reading and parsing   *)
(* the i-th manifest file gives: <<manifest>>, or <<>> when it throws.     *)
(* order is the order in which the reads complete.                         *)
(***************************************************************************)
MANIFEST_FILE == "manifest.json"

\* the last segment is manifest.json and no segment is locale
isValidManifest(filePath) ==
    LET segments == split(lowerCased(filePath))
    IN  /\ segments[Len(segments)] = MANIFEST_FILE
        /\ \A i \in 1..Len(segments) : segments[i] # "locale"

\* getModManifest: the parsed manifest, or {} and a log entry
getModManifest(read) ==
    IF read = <<>> THEN [manifest |-> Obj(<<>>), logged |-> <<"error">>]
    ELSE [manifest |-> read[1], logged |-> <<>>]

\* what one callback of manifestFiles.map returns
modWithManifest(files, manifestFile, read) ==
    [manifest |-> SMAPIManifestClass(getModManifest(read).manifest),
     manifestFile |-> manifestFile,
     rootFolder |-> dirname(manifestFile),
     manifestIndex |-> indexOf(lowerCased(manifestFile), MANIFEST_FILE),
     modFiles |->
        SelectSeq(files, LAMBDA file :
            /\ indexOf(file, dirname(manifestFile)) # -1
            /\ (dirname(file) # "." \/ dirname(manifestFile) = ".")
            /\ ~endsWith(file, sep)),
     logged |-> getModManifest(read).logged]

\* smapiManifests once every callback has run, in the order they completed:
\* if (!!id && !!installedVersion) smapiManifests[id] = modManifest.toJSON()
savedManifests(mods, order) ==
    LET saveAs(saved, modManifest) ==
            IF Truthy(modManifest["UniqueID"]) /\ Truthy(modManifest["Version"])
            THEN SetProp(saved, modManifest["UniqueID"].str, toJSON(modManifest))
            ELSE saved
        F[k \in 0..Len(order)] ==
            IF k = 0 THEN Obj(<<>>)
            ELSE saveAs(F[k - 1],
                        SMAPIManifestClass(toJSON(mods[order[k]].manifest)))
    IN  F[Len(order)]

\* ['Name', 'uniqueid', 'name'].find(entry => data.hasOwnProperty(entry))
resolveNameEntry(data) ==
    Find(<<"Name", "uniqueid", "name">>,
         {i \in 1..3 : \E k \in 1..Len(Keys(data)) :
                           Keys(data)[k] = <<"Name", "uniqueid", "name">>[i]})

\* mod.manifest[nameKey]?.replace(/[^a-zA-Z0-9]/g, '')
manifestModName(data, nameKey) ==
    LET stripped(value) ==
            IF IsNullish(value) THEN [threw |-> FALSE, name |-> Undef]
            ELSE IF IsStr(value)
            THEN [threw |-> FALSE, name |-> Str(alphanumericOnly(value.str))]
            ELSE [threw |-> TRUE, name |-> Undef]
    IN  stripped(IF nameKey = <<>> THEN Undef ELSE Prop(data, nameKey[1]))

\* one callback of modManifests.map: the copy instructions of the mod.
\* path.join throws for a name that is no string.
modInstructions(mod) ==
    LET copies(stripped, modName) ==
            IF stripped.threw \/ (mod.modFiles # <<>> /\ ~IsStr(modName))
            THEN [threw |-> TRUE, instructions |-> <<>>]
            ELSE [threw |-> FALSE,
                  instructions |->
                      [i \in 1..Len(mod.modFiles) |->
                          [type |-> "copy",
                           source |-> mod.modFiles[i],
                           destination |->
                               join(modName.str,
                                    substring(mod.modFiles[i], mod.manifestIndex))]]]
        named(stripped) ==
            copies(stripped,
                   IF mod.rootFolder # "." THEN Str(mod.rootFolder) ELSE stripped.name)
    IN  named(manifestModName(toJSON(mod.manifest),
                              resolveNameEntry(toJSON(mod.manifest))))

\* the whole of install: the copy instructions of every mod, then the
\* attribute instruction when a manifest was saved; no rule instruction,
\* as rules stays empty
install(files, reads, order) ==
    LET result(mods, perMod, saved) ==
            IF \E i \in 1..Len(perMod) : perMod[i].threw
            THEN [threw |-> TRUE, instructions |-> <<>>,
                  logged |-> Concat([k \in 1..Len(order) |-> mods[order[k]].logged])]
            ELSE [threw |-> FALSE,
                  instructions |->
                      Concat([i \in 1..Len(perMod) |-> perMod[i].instructions])
                      \o (IF Len(Keys(saved)) > 0
                          THEN <<[type |-> "attribute", key |-> "smapiManifests",
                                  value |-> saved]>>
                          ELSE <<>>),
                  logged |-> Concat([k \in 1..Len(order) |-> mods[order[k]].logged])]
        instructed(mods) ==
            result(mods, [i \in 1..Len(mods) |-> modInstructions(mods[i])],
                   savedManifests(mods, order))
        manifests(manifestFiles) ==
            instructed([i \in 1..Len(manifestFiles) |->
                          modWithManifest(files, manifestFiles[i], reads[i])])
    IN  manifests(SelectSeq(files, isValidManifest))

(***************************************************************************)
(* installers/smapi: installSMAPI.  platform is process.platform, depsRead *)
(* the content of 'Stardew Valley.deps.json' (<<>> when the read throws),  *)
(* extract whether extractFull succeeds, and walked what util.walk visits, *)
(* as relative paths.  names is the module's _SMAPI_BUNDLED_MODS.          *)
(***************************************************************************)
SMAPI_EXE == "StardewModdingAPI.exe"

SMAPI_DATA == <<"windows-install.dat", "install.dat">>

\* the folder of linux on every platform
platformFolderLinux(platform) == "linux"

platformFolder(platform) ==
    IF platform = "win32" THEN "windows"
    ELSE IF platform = "linux" THEN "linux"
    ELSE "macos"

\* file.split(path.sep).map(seg => seg.toLowerCase()).includes(folder)
fileHasCorrectPlatform(file, folder) ==
    \E i \in 1..Len(split(file)) : lowerCased(split(file)[i]) = folder

\* Array.from(new Set(_SMAPI_BUNDLED_MODS.map(modName => modName.toLowerCase())))
getBundledMods(names) ==
    Concat([i \in 1..Len(names) |->
               IF \E j \in 1..(i - 1) : lowerCased(names[j]) = lowerCased(names[i])
               THEN <<>> ELSE <<lowerCased(names[i])>>])

\* the outcome of the walk: the files that were not in the archive, and
\* the names pushed onto _SMAPI_BUNDLED_MODS, one for every path that has
\* a segment after its first 'mods' segment
walkOutcome(files, walked) ==
    LET isUpdated(entry) ==
            /\ \A i \in 1..Len(files) : files[i] # entry.relPath
            /\ entry.isFile
            /\ \A i \in 1..Len(files) : files[i] # entry.relPath \o sep
        modsFolderIdx(segments) ==
            IF \E i \in 1..Len(segments) : segments[i] = "mods"
            THEN CHOOSE i \in 1..Len(segments) :
                     /\ segments[i] = "mods"
                     /\ \A j \in 1..(i - 1) : segments[j] # "mods"
            ELSE 0
        pushed(segments, at) ==
            IF at # 0 /\ Len(segments) > at THEN <<segments[at + 1]>> ELSE <<>>
        name(segments) == pushed(segments, modsFolderIdx(segments))
    IN  [updatedFiles |->
            Concat([i \in 1..Len(walked) |->
                       IF isUpdated(walked[i]) THEN <<walked[i].relPath>> ELSE <<>>]),
         pushed |->
            Concat([i \in 1..Len(walked) |->
                       name(split(lowerCased(walked[i].relPath)))])]

\* the whole of installSMAPI: its outcome, what it extracted, and
\* _SMAPI_BUNDLED_MODS as it leaves it
installSMAPI(platform, files, depsRead, extract, walked, names) ==
    LET rejected(error, extracted, bundledMods) ==
            [rejected |-> <<error>>, instructions |-> <<>>,
             extracted |-> extracted, bundled |-> bundledMods,
             logged |-> IF extracted # <<>> /\ depsRead = <<>>
                        THEN <<"error">> ELSE <<>>]
        found(updatedFiles, smapiExe, dataFile, bundledMods) ==
            IF smapiExe = <<>>
            THEN rejected("DataInvalid: Failed to extract StardewModdingAPI.exe",
                          <<dataFile>>, bundledMods)
            ELSE [rejected |-> <<>>,
                  instructions |->
                      [i \in 1..Len(updatedFiles) |->
                          [type |-> "copy", source |-> updatedFiles[i],
                           destination |->
                               normalize(substring(updatedFiles[i],
                                         indexOf(smapiExe[1], basename(smapiExe[1]))))]]
                      \o <<[type |-> "attribute", key |-> "smapiBundledMods",
                            value |-> getBundledMods(bundledMods)],
                           [type |-> "generatefile",
                            data |-> IF depsRead = <<>> THEN "" ELSE depsRead[1],
                            destination |-> "StardewModdingAPI.deps.json"]>>,
                  extracted |-> <<dataFile>>, bundled |-> bundledMods,
                  logged |-> IF depsRead = <<>> THEN <<"error">> ELSE <<>>]
        walkedOver(outcome, dataFile) ==
            found(outcome.updatedFiles,
                  Find(outcome.updatedFiles,
                       {i \in 1..Len(outcome.updatedFiles) :
                           endsWith(lowerCased(outcome.updatedFiles[i]),
                                    lowerCased(SMAPI_EXE))}),
                  dataFile, names \o outcome.pushed)
        data(dataFile) ==
            IF dataFile = <<>>
            THEN rejected("DataInvalid: Failed to find the SMAPI data files",
                          <<>>, names)
            ELSE IF extract = "error" THEN rejected("Error", dataFile, names)
            ELSE walkedOver(walkOutcome(files, walked), dataFile[1])
    IN  data(Find(files,
                  {i \in 1..Len(files) :
                      /\ fileHasCorrectPlatform(files[i], platformFolder(platform))
                      /\ \E k \in 1..Len(SMAPI_DATA) :
                             SMAPI_DATA[k] = lowerCased(basename(files[i]))}))

(***************************************************************************)
(* The tests the host runs to choose an installer for an archive.          *)
(***************************************************************************)
\* testSupported without its search for a Content folder
testSupportedAnyManifest(files, gameId) ==
    /\ gameId = GAME_ID
    /\ \E i \in 1..Len(files) : isValidManifest(files[i])

\* installers/smapi-mods: the supported flag of testSupported
testSupported(files, gameId) ==
    LET PTRN_CONTENT == sep \o "Content" \o sep
    IN  /\ gameId = GAME_ID
        /\ \E i \in 1..Len(files) : isValidManifest(files[i])
        /\ ~\E i \in 1..Len(files) : endsWith(join("fakeDir", files[i]), PTRN_CONTENT)

\* installers/root-folder: the supported flag of testRootFolder
testRootFolder(files, gameId) ==
    LET PTRN_CONTENT == sep \o "Content" \o sep
        filtered == SelectSeq(files, LAMBDA file : endsWith(file, sep))
    IN  /\ gameId = GAME_ID
        /\ \E i \in 1..Len(filtered) :
               endsWith(join("fakeDir", filtered[i]), PTRN_CONTENT)

(***************************************************************************)
(* events/addedFiles: handleAddedFiles.  mods is                           *)
(* state.persistent.mods[GAME_ID]: a function from the ids of the mods to  *)
(* [id, type, smapiBundledMods], type being <<>> for a mod without one and *)
(* smapiBundledMods <<>> for a mod without the attribute.  names is        *)
(* _SMAPI_BUNDLED_MODS at the time of the event, fsOutcome what the file   *)
(* system does: "ok", "copyFails", "sameFile" or "ensureDirFails".         *)
(***************************************************************************)
\* mod is <<the mod>>, or <<>> for undefined
isModCandidateValid(mod, entry, names) ==
    LET modFolderName(segments) ==
            IF \E i \in 1..(Len(segments) - 1) : segments[i] = "mods"
            THEN <<segments[1 + CHOOSE i \in 1..Len(segments) :
                                    /\ segments[i] = "mods"
                                    /\ \A j \in 1..(i - 1) : segments[j] # "mods"]>>
            ELSE <<>>
        bundledMods == IF Len(mod[1].smapiBundledMods) > 0
                       THEN mod[1].smapiBundledMods
                       ELSE getBundledMods(names)
        valid(segments) ==
            IF \E i \in 1..Len(segments) : segments[i] = "content" THEN FALSE
            ELSE /\ modFolderName(segments) # <<>>
                 /\ \E i \in 1..Len(bundledMods) :
                        bundledMods[i] = modFolderName(segments)[1]
    IN  IF mod = <<>> \/ mod[1].type = <<"sdvrootfolder">> THEN FALSE
        ELSE IF mod[1].type # <<"SMAPI">> THEN TRUE
        ELSE valid(SelectSeq(split(lowerCased(entry.filePath)), LAMBDA seg : seg # ""))

\* the whole handler: for each file the file operations it starts, whether
\* the handler rejects, and what it logs
handleAddedFiles(gameId, mods, files, fsOutcome, names) ==
    LET modPaths(type) ==
            IF type = <<>> \/ type = <<"">> THEN "/game/Mods" ELSE "/game"
        installPath == "staging"
        \* path.relative(from, to) for two absolute paths
        shared(fs, ts) ==
            CHOOSE k \in 0..Len(fs) :
                /\ k <= Len(ts)
                /\ \A i \in 1..k : fs[i] = ts[i]
                /\ k < Len(fs) /\ k < Len(ts) => fs[k + 1] # ts[k + 1]
        joined(segments) ==
            LET F[i \in 0..Len(segments)] ==
                    IF i = 0 THEN ""
                    ELSE IF i = 1 THEN segments[1]
                    ELSE F[i - 1] \o sep \o segments[i]
            IN  F[Len(segments)]
        relativeTo(fs, ts, k) ==
            joined([i \in 1..(Len(fs) - k) |-> ".."] \o SubSeq(ts, k + 1, Len(ts)))
        relative(from, to) ==
            relativeTo(split(from), split(to), shared(split(from), split(to)))
        targetPath(mod, file) ==
            join(join(installPath, mod.id),
                 relative(modPaths(mod.type), file.filePath))
        reimport(file, target) ==
            IF fsOutcome = "ensureDirFails"
            THEN [rejected |-> TRUE, logged |-> <<>>,
                  ops |-> <<[op |-> "ensureDir", path |-> dirname(target)]>>]
            ELSE [rejected |-> FALSE,
                  logged |-> IF fsOutcome = "copyFails" THEN <<"error">> ELSE <<>>,
                  ops |-> <<[op |-> "ensureDir", path |-> dirname(target)],
                            [op |-> "copy", from |-> file.filePath, to |-> target]>>
                          \o (IF fsOutcome = "ok"
                              THEN <<[op |-> "remove", path |-> file.filePath]>>
                              ELSE <<>>)]
        nothing == [rejected |-> FALSE, logged |-> <<>>, ops |-> <<>>]
        candidate(file) ==
            IF file.candidates[1] \in DOMAIN mods
            THEN <<mods[file.candidates[1]]>> ELSE <<>>
        perFile(file) ==
            IF Len(file.candidates) = 0 THEN nothing
            ELSE IF ~isModCandidateValid(candidate(file), file, names) THEN nothing
            ELSE reimport(file, targetPath(candidate(file)[1], file))
    IN  IF gameId # GAME_ID THEN <<>>
        ELSE [i \in 1..Len(files) |-> perFile(files[i])]

(***************************************************************************)
(* The installers called on an archive, and the manifest class applied to  *)
(* a parsed manifest.                                                      *)
(***************************************************************************)
\* the listings of mod archives: a mod in a folder, a mod at the root of
\* the archive, two mods, a manifest below a locale folder, no manifest
ModArchives ==
    {<<"Mod/", "Mod/manifest.json", "Mod/assets/a.png">>,
     <<"manifest.json", "a.dll", "assets/b.png">>,
     <<"one/manifest.json", "one/a.dll", "two/Manifest.JSON", "two/b.png">>,
     <<"Mod/manifest.json", "Mod/Locale/manifest.json">>,
     <<"readme.txt">>}

\* what reading a manifest file gives: it fails, or a manifest was parsed
\* (complete, with lower-case keys, a second version of the same id,
\* without a version, empty)
InstallReads ==
    {<<>>,
     <<Obj(<<KV("Name", Str("My Mod!")), KV("UniqueID", Str("A")),
             KV("Version", Str("1.0.0"))>>)>>,
     <<Obj(<<KV("name", Str("pack")), KV("uniqueid", Str("a")),
             KV("version", Str("2.0.0")), KV("ContentPackFor", PackForC)>>)>>,
     <<Obj(<<KV("Name", Str("A3")), KV("UniqueID", Str("A")),
             KV("Version", Str("3.0.0")), KV("Dependencies", Arr(<<DepB>>))>>)>>,
     <<Obj(<<KV("UniqueID", Str("A"))>>)>>,
     <<Obj(<<>>)>>}

\* the listings of SMAPI archives: a data file for every platform, for
\* linux alone, a data file outside the platform folders, none
SmapiArchives ==
    {<<"internal/linux/install.dat", "internal/Windows/windows-install.dat",
       "internal/macOS/install.dat">>,
     <<"internal/linux/install.dat", "readme.txt">>,
     <<"internal/linux/readme.txt", "install.dat">>,
     <<"SMAPI.Installer.dll">>}

\* what the walk finds beside the files of the archive
Extracted ==
    {<<[relPath |-> "StardewModdingAPI.exe", isFile |-> TRUE],
       [relPath |-> "Mods", isFile |-> FALSE],
       [relPath |-> "Mods/ConsoleCommands", isFile |-> FALSE],
       [relPath |-> "Mods/ConsoleCommands/manifest.json", isFile |-> TRUE]>>,
     <<[relPath |-> "bin/StardewModdingAPI.exe", isFile |-> TRUE],
       [relPath |-> "bin/Mods/NewMod/manifest.json", isFile |-> TRUE]>>,
     <<[relPath |-> "smapi-internal/config.json", isFile |-> TRUE]>>}

\* the deps file is read or not, the extraction succeeds or not
SmapiOutcomes ==
    {[depsRead |-> <<"{}">>, extract |-> "ok"],
     [depsRead |-> <<>>, extract |-> "ok"],
     [depsRead |-> <<"{}">>, extract |-> "error"]}

\* parsed manifests with their keys in either case, with empty values and
\* with a key present in both cases; undefined for no manifest at all
ParsedManifests ==
    {Undef}
    \cup {Obj(n \o i \o d \o p) :
             n \in {<<>>, <<KV("Name", Str("My Mod!"))>>, <<KV("name", Str("pack"))>>,
                    <<KV("Name", Str("")), KV("name", Str("x"))>>,
                    <<KV("name", Str("x")), KV("Name", Str(""))>>},
             i \in {<<>>, <<KV("UniqueID", Str("A")), KV("Version", Str("1.0.0"))>>,
                    <<KV("uniqueid", Str("a")), KV("version", Str(""))>>},
             d \in {<<>>, <<KV("Dependencies", Arr(<<>>))>>,
                    <<KV("dependencies", Arr(<<DepB>>))>>,
                    <<KV("Dependencies", Null)>>, <<KV("Dependencies", Str("B"))>>,
                    <<KV("Dependencies", Str("")), KV("dependencies", Arr(<<DepX>>))>>},
             p \in {<<>>, <<KV("ContentPackFor", PackForC)>>,
                    <<KV("contentpackfor", PackForC)>>}}

\* the calls of install and of the class that can be pending, the reads of
\* install completing in any order, and the installer of SMAPI before its
\* first call
PendingInstalls ==
    LET Orders(n) == {p \in [1..n -> 1..n] : \A i, j \in 1..n : p[i] = p[j] => i = j}
        \* archives with a Content folder: at the root, beside a manifest,
        \* inside a mod, in lower case, and a file of that name
        TestArchives ==
            {<<"Content/", "Content/Maps/", "Content/Maps/Farm.xnb">>,
             <<"Pack/", "Pack/Content/", "Pack/Content/a.xnb", "Pack/Mods/",
               "Pack/Mods/One/", "Pack/Mods/One/manifest.json">>,
             <<"Mod/", "Mod/manifest.json", "Mod/assets/", "Mod/assets/Content/",
               "Mod/assets/Content/b.png">>,
             <<"Mod/", "Mod/manifest.json", "Mod/content/", "Mod/content/c.json">>,
             <<"Mod/manifest.json", "Mod/Content">>,
             <<"Mod/manifest.json", "Mod/Content/d.png">>}
    IN  UNION {{[fn |-> "install", state |-> "pending", files |-> files,
                 reads |-> reads, order |-> order] :
                    reads \in [1..Len(SelectSeq(files, isValidManifest)) -> InstallReads],
                    order \in Orders(Len(SelectSeq(files, isValidManifest)))} :
               files \in ModArchives}
        \cup {[fn |-> "SMAPIManifestClass", state |-> "pending", raw |-> raw] :
                 raw \in ParsedManifests}
        \cup {[fn |-> "installSMAPI", state |-> "pending"]}
        \cup {[fn |-> "test", state |-> "pending", files |-> files, gameId |-> gameId] :
                 files \in ModArchives \cup TestArchives,
                 gameId \in {GAME_ID, "skyrimse"}}

InitInstall ==
    /\ installed = <<>>
    /\ smapiManifests = [id \in ModIds |-> BundledManifests(id)]
    /\ rules = [id \in ModIds |-> <<>>]
    /\ handlers = {}
    /\ finished = <<>>
    /\ events = 0
    /\ call \in PendingInstalls
    /\ SMAPI_BUNDLED_MODS = BundledWithSMAPI

InstallCall ==
    /\ call.fn = "install" /\ call.state = "pending"
    /\ call' = [fn |-> call.fn, state |-> "done", files |-> call.files,
                reads |-> call.reads, order |-> call.order,
                result |-> install(call.files, call.reads, call.order)]
    /\ UNCHANGED storeVars

\* installSMAPI is called, for the first time or again; the walk visits the
\* files of the archive, then the extracted ones
InstallSMAPICall(platform, files, outcome, extracted) ==
    /\ call.fn = "installSMAPI"
    /\ Len(SMAPI_BUNDLED_MODS) < MaxBundledNames
    /\ \E r \in {installSMAPI(platform, files, outcome.depsRead, outcome.extract,
                               [i \in 1..Len(files) |->
                                   [relPath |-> files[i], isFile |-> TRUE]]
                               \o extracted,
                               SMAPI_BUNDLED_MODS)} :
           /\ call' = [fn |-> call.fn, state |-> "done", platform |-> platform,
                       files |-> files, outcome |-> outcome,
                       extracted |-> extracted, before |-> SMAPI_BUNDLED_MODS,
                       result |-> r]
           /\ SMAPI_BUNDLED_MODS' = r.bundled
    /\ UNCHANGED <<installed, smapiManifests, rules, handlers, finished, events>>

\* new SMAPIManifestClass(raw).toJSON(), and the same applied to its result
NormaliseCall ==
    /\ call.fn = "SMAPIManifestClass" /\ call.state = "pending"
    /\ call' = [fn |-> call.fn, state |-> "done", raw |-> call.raw,
                once |-> toJSON(SMAPIManifestClass(call.raw)),
                twice |-> toJSON(SMAPIManifestClass(
                                     toJSON(SMAPIManifestClass(call.raw))))]
    /\ UNCHANGED storeVars

\* the host asks the two installers of priority 50 whether they support
\* the archive
TestInstallersCall ==
    /\ call.fn = "test" /\ call.state = "pending"
    /\ call' = [fn |-> call.fn, state |-> "done", files |-> call.files,
                gameId |-> call.gameId,
                testSupported |-> testSupported(call.files, call.gameId),
                testRootFolder |-> testRootFolder(call.files, call.gameId)]
    /\ UNCHANGED storeVars

\* the mods of the game an added-files event can meet: SMAPI installed
\* without the smapiBundledMods attribute and with it, a root-folder mod,
\* a regular mod, and a mod without a type
StardewMods ==
    [id \in {"smapi-old", "smapi-new", "root", "mod-b", "mod-u"} |->
        [id |-> id,
         type |-> CASE id \in {"smapi-old", "smapi-new"} -> <<"SMAPI">>
                    [] id = "root" -> <<"sdvrootfolder">>
                    [] id = "mod-b" -> <<"">>
                    [] OTHER -> <<>>,
         smapiBundledMods |->
            IF id = "smapi-new"
            THEN <<"errorhandler", "consolecommands", "savebackup", "newmod">>
            ELSE <<>>]]

\* an added-files event arrives, before or after SMAPI was installed in the
\* session
AddedFiles(gameId, files, fsOutcome) ==
    /\ call.fn = "installSMAPI"
    /\ call' = [fn |-> "handleAddedFiles", state |-> "done", gameId |-> gameId,
                mods |-> StardewMods, files |-> files, fsOutcome |-> fsOutcome,
                names |-> SMAPI_BUNDLED_MODS,
                result |-> handleAddedFiles(gameId, StardewMods, files, fsOutcome,
                                            SMAPI_BUNDLED_MODS)]
    /\ UNCHANGED storeVars

NextInstall ==
    \/ InstallCall
    \/ TestInstallersCall
    \/ \E gameId \in {GAME_ID, "skyrimse"},
          fsOutcome \in {"ok", "copyFails", "sameFile", "ensureDirFails"},
          files \in {<<>>,
                     <<[filePath |-> "/game/Mods/NewMod/y.dll",
                        candidates |-> <<"smapi-old">>],
                       [filePath |-> "/game/Mods/Other/z.dll", candidates |-> <<>>]>>}
                    \cup {<<[filePath |-> p, candidates |-> c]>> :
                             p \in {"/game/Mods/ConsoleCommands/x.dll",
                                    "/game/Mods/NewMod/y.dll",
                                    "/game/Mods/Other/z.dll",
                                    "/game/Mods/ErrorHandler/content/b.json",
                                    "/game/Content/Maps/a.xnb",
                                    "/game/readme.txt"},
                             c \in {<<>>, <<"smapi-old">>, <<"smapi-new">>, <<"root">>,
                                    <<"mod-b">>, <<"mod-u">>, <<"ghost">>,
                                    <<"ghost", "mod-b">>, <<"mod-b", "root">>}} :
           AddedFiles(gameId, files, fsOutcome)
    \/ \E platform \in Platforms, files \in SmapiArchives,
          outcome \in SmapiOutcomes, extracted \in Extracted :
           InstallSMAPICall(platform, files, outcome, extracted)
    \/ NormaliseCall

SpecInstall == InitInstall /\ [][NextInstall]_vars

(***************************************************************************)
(* Properties of the installers and of the manifest class.                 *)
(***************************************************************************)
installDone == call.fn = "install" /\ call.state = "done"

\* the ids of the manifests of the call that were read and parsed
idsRead ==
    {getManifestValue(call.reads[i][1], "UniqueID") :
        i \in {j \in 1..Len(call.reads) : call.reads[j] # <<>>}}

\* C16: when a manifest.json of the archive cannot be read or parsed,
\* wherever it sits in the archive, install does not fail: it resolves with
\* the copy instructions, and no smapiManifests entry is recorded for that
\* manifest.
C16_UnreadableManifestTolerated ==
    (installDone /\ \E i \in 1..Len(call.reads) : call.reads[i] = <<>>) =>
        /\ ~call.result.threw
        /\ \E k \in 1..Len(call.result.instructions) :
               call.result.instructions[k].type = "copy"
        /\ \A k \in 1..Len(call.result.instructions) :
               \/ call.result.instructions[k].type = "copy"
               \/ /\ call.result.instructions[k].type = "attribute"
                  /\ \A id \in Range(Keys(call.result.instructions[k].value)) :
                         Str(id) \in idsRead

smapiDone == call.fn = "installSMAPI" /\ call.state = "done"

\* the folder of the archive that holds the files of a platform
folderOf(platform) ==
    CASE platform = "win32" -> "windows"
      [] platform = "linux" -> "linux"
      [] OTHER -> "macos"

\* f is an install data file below the folder of the platform
dataFileFor(f, platform) ==
    /\ lowerCased(basename(f)) \in {"install.dat", "windows-install.dat"}
    /\ \E i \in 1..(Len(split(f)) - 1) : lowerCased(split(f)[i]) = folderOf(platform)

\* C17: when the archive holds no install data file under the folder of the
\* current platform, installSMAPI rejects with DataInvalid, asking for a
\* new download, before anything is extracted and without instructions.
C17_NoDataFileRejects ==
    (smapiDone /\ \A i \in 1..Len(call.files) :
                      ~dataFileFor(call.files[i], call.platform)) =>
        /\ call.result.rejected =
               <<"DataInvalid: Failed to find the SMAPI data files">>
        /\ call.result.extracted = <<>>
        /\ call.result.instructions = <<>>

\* C17 witness: on win32 an archive that holds the data file of linux only
\* was rejected.
C17_Witness ==
    /\ smapiDone
    /\ call.platform = "win32"
    /\ \E i \in 1..Len(call.files) : dataFileFor(call.files[i], "linux")
    /\ \A i \in 1..Len(call.files) : ~dataFileFor(call.files[i], "win32")
    /\ call.result.rejected # <<>>
    /\ call.result.extracted = <<>>

normaliseDone == call.fn = "SMAPIManifestClass" /\ call.state = "done"

\* C18: normalizing is idempotent: for every raw manifest, whatever the case
\* of its keys, new SMAPIManifestClass(new SMAPIManifestClass(m).toJSON())
\* .toJSON() has the same value in every field as
\* new SMAPIManifestClass(m).toJSON().
C18_NormaliseIdempotent ==
    normaliseDone =>
        /\ Keys(call.twice) = Keys(call.once)
        /\ \A f \in ManifestFields : Prop(call.twice, f) = Prop(call.once, f)

\* C18 witness: a manifest with lower-case keys only, whose name and
\* dependencies were found under them, was normalized twice.
C18_Witness ==
    /\ normaliseDone
    /\ IsObj(call.raw)
    /\ ~Truthy(Prop(call.raw, "Dependencies"))
    /\ Truthy(Prop(call.raw, "dependencies"))
    /\ Prop(call.once, "Dependencies") = Prop(call.raw, "dependencies")
    /\ Prop(call.once, "Name") = Prop(call.raw, "name")
    /\ Truthy(Prop(call.raw, "name"))
    /\ call.twice = call.once

(***************************************************************************)
(* The catalog client met with an empty batch or without a game version.   *)
(***************************************************************************)
\* a settled call that handed an empty identity batch to sendQuery: the
\* resolver with every dependency matched locally, or sendQuery itself
emptyBatch ==
    \/ mapDone /\ call.result.queried /\ call.result.missing = <<>>
    \/ call.fn = "sendQuery" /\ call.state = "done" /\ call.mods = <<>>

\* the value the query of a settled call came back with is an empty array
emptyResult ==
    IF call.fn = "sendQuery" THEN call.result.value = Arr(<<>>)
    ELSE call.result.rules = call.result.localRules

\* C21: when the identity batch handed to the catalog client is empty (for
\* instance because every dependency was matched locally), the query returns
\* an empty sequence and no HTTP POST is made.
C21_EmptyBatchNoPost ==
    emptyBatch => (call.result.posts = <<>> /\ emptyResult)

\* the installed game version is unavailable to the call: the host does not
\* know the game, or getInstalledVersion yields nothing
versionUnavailable(env) == ~env.game \/ env.version = <<>>

\* C22: if the installed game version is unavailable (the game is unknown
\* to the host or getInstalledVersion yields nothing), sendQuery fails
\* closed: it resolves to an empty result and performs no HTTP POST.
C22_NoVersionFailsClosed ==
    (call.fn = "sendQuery" /\ call.state = "done" /\ versionUnavailable(call.env)) =>
        /\ ~call.result.threw
        /\ call.result.value = Arr(<<>>)
        /\ call.result.posts = <<>>

\* C22 witness: sendQuery was called with a batch of two identities while
\* the game was known but had no installed version, and it has settled.
C22_Witness ==
    /\ call.fn = "sendQuery"
    /\ call.state = "done"
    /\ Len(call.mods) = 2
    /\ call.env.game
    /\ call.env.version = <<>>
    /\ call.result.logged

(***************************************************************************)
(* getManifestValue on the raw manifests given to the class.               *)
(***************************************************************************)
\* manifest has key as an own property
hasKey(manifest, key) == key \in Range(Keys(manifest))

\* the values stored under the keys of manifest equal to key ignoring case
valuesIgnoringCase(manifest, key) ==
    {Prop(manifest, k) : k \in {j \in Range(Keys(manifest)) :
                                    toLowerCase(j) = toLowerCase(key)}}

\* C23: getManifestValue(manifest, key) returns the value stored under the
\* exactly-named key whenever the manifest has that key (whatever its value,
\* including false or an empty string); only when the exact key is absent
\* does it return the value of a key equal to it ignoring case; when there
\* is no such key it returns undefined.
C23_ExactKeyFirst ==
    normaliseDone =>
        \A key \in ManifestFields :
            IF hasKey(call.raw, key)
            THEN getManifestValue(call.raw, key) = Prop(call.raw, key)
            ELSE IF valuesIgnoringCase(call.raw, key) # {}
            THEN getManifestValue(call.raw, key) \in valuesIgnoringCase(call.raw, key)
            ELSE getManifestValue(call.raw, key) = Undef

(***************************************************************************)
(* Local matches without a minimum version.                                *)
(***************************************************************************)
\* the positions, in the installed-mods mapping, of the mods that bundle a
\* manifest under the id uid
holders(uid) ==
    {j \in 1..Len(installed) : IsObj(Prop(smapiManifests[installed[j]], uid))}

\* the rules of the call that are Local rules for the declared id uid
localRulesFor(uid) ==
    {k \in 1..Len(call.result.rules) :
        /\ "id" \in DOMAIN call.result.rules[k].reference
        /\ call.result.rules[k].reference.description = uid}

\* the declaration at position i names an id, names it first, and asks for
\* no minimum version
firstWithoutMinimum(i) ==
    /\ Truthy(Prop(call.dependencies.arr[i], "UniqueID"))
    /\ ~Truthy(Prop(call.dependencies.arr[i], "MinimumVersion"))
    /\ \A j \in 1..(i - 1) :
           Prop(call.dependencies.arr[j], "UniqueID") #
               Prop(call.dependencies.arr[i], "UniqueID")

C25_RulesWithoutFileExpressionKept ==
    \A h \in invocations :
        \A p \in 1..Len(h.log) :
            h.log[p].kind = "remove" =>
                \A r \in Range(h.log[p].batch) :
                    "fileExpression" \in DOMAIN r.reference

(***************************************************************************)
(* getModDependencies, read off a settled call.                            *)
(***************************************************************************)
gmdDone ==
    /\ call.fn = "getModDependencies"
    /\ call.state = "done"
    /\ ~call.result.threw

\* the ids the manifest of the call declares in its Dependencies list and
\* as ContentPackFor
gmdDeclaredIds ==
    {getManifestValue(d, "UniqueID").str :
        d \in {e \in (IF IsArr(getManifestValue(call.manifest, "Dependencies"))
                      THEN Range(getManifestValue(call.manifest, "Dependencies").arr)
                      ELSE {})
                     \cup {getManifestValue(call.manifest, "ContentPackFor")} :
                  IsStr(getManifestValue(e, "UniqueID"))}}

\* the installed mods that carry the id uid, up to letter case, among
\* their smapiIDs
installedWith(uid) ==
    {installed[j] : j \in {i \in 1..Len(installed) :
        /\ IsArr(ModAttributes(installed[i]).smapiIDs)
        /\ \E n \in Range(ModAttributes(installed[i]).smapiIDs.arr) :
               toLowerCase(n) = toLowerCase(uid)}}

\* C26: getModDependencies returns one rule per declared dependency: the
\* returned list holds a Local rule, referencing an installed mod that
\* carries the id, for every dependency matched locally, together with the
\* Remote rules of the others, and it holds no undefined entry for a
\* dependency the catalog did not return.
C26_LocalAndRemoteRules ==
    gmdDone =>
        /\ \A k \in 1..Len(call.result.rules) : call.result.rules[k] # <<Undef>>
        /\ \A uid \in gmdDeclaredIds :
               installedWith(uid) # {} =>
                   \E k \in 1..Len(call.result.rules) :
                       /\ call.result.rules[k] # <<Undef>>
                       /\ "id" \in DOMAIN call.result.rules[k][1].reference
                       /\ call.result.rules[k][1].reference.id \in installedWith(uid)

(***************************************************************************)
(* The smapiBundledMods attribute of an install of SMAPI.                  *)
(***************************************************************************)
\* the value of the smapiBundledMods attribute among the instructions of
\* the call
bundledAttribute ==
    call.result.instructions[
        CHOOSE i \in 1..Len(call.result.instructions) :
            call.result.instructions[i].type = "attribute"].value

\* the lower-cased names of the folders below a 'Mods' folder among the
\* paths of the call's archive and of what it extracted
foldersUnderMods ==
    UNION {{split(lowerCased(p))[i + 1] :
                i \in {j \in 1..(Len(split(lowerCased(p))) - 1) :
                           split(lowerCased(p))[j] = "mods"}} :
           p \in Range(call.files) \cup {e.relPath : e \in Range(call.extracted)}}

\* C27: after any sequence of SMAPI installs, the smapiBundledMods
\* attribute produced by one installSMAPI call holds only the three default
\* bundled mod names, lower-cased, and the folder names found under 'Mods'
\* in that call's own extracted archive, without duplicates: a name found
\* by an earlier install of another archive is not in it.
C27_BundledModsOfThisArchive ==
    (smapiDone /\ call.result.rejected = <<>>) =>
        /\ Range(bundledAttribute) \subseteq
               {"errorhandler", "consolecommands", "savebackup"} \cup foldersUnderMods
        /\ \A i, j \in 1..Len(bundledAttribute) :
               bundledAttribute[i] = bundledAttribute[j] => i = j

(***************************************************************************)
(* The two installers of priority 50 on one archive.                       *)
(***************************************************************************)
testDone == call.fn = "test" /\ call.state = "done"

\* the archive lists a directory entry that is a Content folder: the entry
\* is 'Content/' or ends in '/Content/'
listsContentFolder ==
    \E i \in 1..Len(call.files) :
        \/ call.files[i] = "Content/"
        \/ endsWith(call.files[i], "/Content/")

\* C28: for every file list and game id, testSupported (the installer of
\* regular SMAPI mods) and testRootFolder (the root-folder installer) never
\* both report supported: an archive that lists a directory entry ending in
\* '/Content/' is supported by testRootFolder only, and both report
\* unsupported for a game id other than 'stardewvalley'.
C28_InstallersExclusive ==
    testDone =>
        /\ ~(call.testSupported /\ call.testRootFolder)
        /\ (listsContentFolder /\ call.gameId = "stardewvalley") =>
               (call.testRootFolder /\ ~call.testSupported)
        /\ call.gameId # "stardewvalley" =>
               (~call.testSupported /\ ~call.testRootFolder)

\* C28 witness: an archive of the game that holds a manifest.json and a
\* 'Pack/Content/' folder was tested: the root-folder installer supports
\* it and the installer of regular mods does not.
C28_Witness ==
    /\ testDone
    /\ call.gameId = "stardewvalley"
    /\ \E i \in 1..Len(call.files) : call.files[i] = "Pack/Content/"
    /\ \E i \in 1..Len(call.files) : call.files[i] = "Pack/Mods/One/manifest.json"
    /\ call.testRootFolder
    /\ ~call.testSupported

(***************************************************************************)
(* The order in which the manifest reads of install complete.              *)
(***************************************************************************)
\* C29: the result of install() does not depend on the order in which the
\* concurrent manifest reads complete: for a fixed archive, also one with
\* several manifest.json files that declare the same UniqueID, the copy
\* instructions and the smapiManifests attribute (its keys, their order and
\* the manifest under each key) are the same for every completion order.
C29_ReadOrderIrrelevant ==
    installDone =>
        \A other \in {<<>>, <<1>>, <<1, 2>>, <<2, 1>>} :
            Len(other) = Len(call.order) =>
                install(call.files, call.reads, other).instructions =
                    call.result.instructions

(***************************************************************************)
(* The files an added-files event re-imports.                              *)
(***************************************************************************)
addedDone ==
    /\ call.fn = "handleAddedFiles"
    /\ call.state = "done"
    /\ call.gameId = "stardewvalley"

\* the handler started to re-import the file at position i: it made the
\* folder of the target, the step before the copy and the deletion
reimported(i) == call.result[i].ops # <<>>

\* the file at position i lies under 'mods/<name>' for one of the names,
\* letter case aside, and its path has no 'content' segment
underBundledMod(i, bundledNames) ==
    /\ "content" \notin Range(split(lowerCased(call.files[i].filePath)))
    /\ \E k \in 1..(Len(split(lowerCased(call.files[i].filePath))) - 1) :
           /\ split(lowerCased(call.files[i].filePath))[k] = "mods"
           /\ split(lowerCased(call.files[i].filePath))[k + 1] \in bundledNames

\* the names a mod of type SMAPI is taken to bundle: its smapiBundledMods
\* attribute, or the default list when the attribute is empty
bundledBy(mod) ==
    IF mod.smapiBundledMods # <<>> THEN Range(mod.smapiBundledMods)
    ELSE {"errorhandler", "consolecommands", "savebackup"}

\* C30: handleAddedFiles re-imports an added file into its first candidate
\* mod only if the candidate is valid: never when the mod is unknown or of
\* type 'sdvrootfolder'; for a mod of type 'SMAPI' only when the file path
\* has no 'content' segment and lies under 'mods/<name>' with <name> in the
\* mod's smapiBundledMods (or in the default bundled list when that
\* attribute is empty); for a mod of another type always.  A file without
\* candidates is neither copied nor deleted.
C30_ReimportOnlyValidCandidates ==
    addedDone =>
        \A i \in 1..Len(call.files) :
            IF call.files[i].candidates = <<>> THEN call.result[i].ops = <<>>
            ELSE IF call.files[i].candidates[1] \notin DOMAIN call.mods
            THEN ~reimported(i)
            ELSE \A mod \in {call.mods[call.files[i].candidates[1]]} :
                     /\ mod.type = <<"sdvrootfolder">> => ~reimported(i)
                     /\ mod.type = <<"SMAPI">> =>
                            (reimported(i) => underBundledMod(i, bundledBy(mod)))
                     /\ mod.type \notin {<<"sdvrootfolder">>, <<"SMAPI">>} =>
                            reimported(i)

====
